---- MODULE Spec2Model ----
(***************************************************************************)
(* Outfit rotation: the domain cache model (domain/models.rs), the cache   *)
(* store (infrastructure/cache.rs), the category scanner                    *)
(* (infrastructure/fs/scanner.rs), the selection service                    *)
(* (application/picker.rs), the session of skipped outfits                  *)
(* (application/session.rs) and the terminal interface (interface/tui).     *)
(*                                                                          *)
(* Thirteen specifications share the variables:                             *)
(*   Spec            every service operation, with the directory tree       *)
(*                   changing between calls;                                *)
(*   SpecRotation    random selections only, on a fixed directory tree and  *)
(*                   starting without a cache file;                         *)
(*   SpecCache       the operations of one in-memory OutfitCache value;     *)
(*   SpecInterleave  two random selections whose loads and saves interleave;*)
(*   SpecScan        the scanner, for every exclusion set and read order;   *)
(*   SpecExclusion   selections while categories are excluded and included; *)
(*   SpecQuery       the read-only queries between selections and resets;   *)
(*   SpecRoot        scan_categories of a root that also holds files and    *)
(*                   hidden directories, some directories unreadable;       *)
(*   SpecBuffer      the sub-scans of one scan_categories call, started and *)
(*                   completed a bounded number at a time;                  *)
(*   SpecFault       the service operations while the scan, the read and    *)
(*                   the write of the cache file fail and succeed;          *)
(*   SpecConfig      the calls that change the configuration, while the     *)
(*                   configuration file can and cannot be written;          *)
(*   SpecSession     the operations of one OutfitSession value;             *)
(*   SpecTui         the key events of the main menu, the category list and *)
(*                   the category detail screen, with files being deleted.  *)
(* Timestamps (last_updated, created_at) are left out: no operation reads   *)
(* them.                                                                    *)
(***************************************************************************)
EXTENDS Integers, Sequences, FiniteSets, TLC

VARIABLES
  fs,      \* directory tree: category name -> set of file names in it
  disk,    \* content of the cache file, or Missing
  last,    \* the service call that has just returned, and its result
  hist,    \* SpecRotation: category name -> files returned so far, in order
  cache,   \* SpecCache: the OutfitCache value under operation
  call,    \* SpecCache: the operation just applied to cache
  excluded, \* config.excluded_categories: the category names to skip
  scanned, \* SpecScan: the scan that has just returned, and its result
  pool,    \* SpecBuffer: the sub-scans of the scan_categories call under way
  io,      \* SpecFault: the I/O operations that fail at present
  app,     \* SpecSession, SpecTui: the state of the terminal interface
  language, \* SpecConfig: config.language, None or Some(code)
  proc     \* SpecInterleave: each call in flight: its position and what it read

vars == <<fs, disk, last, hist, cache, call, excluded, scanned, proc, pool, io, app, language>>

--------------------------------------------------------------------------
(* Bounds *)

\* number of distinct outfit file names the first category may hold
MaxFiles == 2
\* SpecRotation: number of distinct outfit file names the first category may hold
MaxRotationFiles == 3
\* SpecRotation: random selections recorded per category
MaxCalls == 5
\* SpecScan: number of distinct outfit file names the first category may hold
MaxScanFiles == 2
\* SpecCache: largest total handed to get_or_create
MaxTotal == 2
\* SpecBuffer: largest number of directories collected from the root
MaxDirs == 11

--------------------------------------------------------------------------
(* Names *)

\* file names, in ascending lexicographic order
AllFileNames == <<"a.avatar", "b.avatar", "c.avatar", "d.avatar", "e.avatar">>

\* category (directory) names, in ascending lexicographic order
AllCategoryNames == <<"Casual", "Formal">>

Root == "/outfits"

\* SpecRoot: what else the root may hold: a regular file and a directory whose
\* name starts with a dot
RootFileNames == {"README.md"}
HiddenDirectoryNames == {".hidden"}

\* every name the root may hold, in ascending lexicographic order
AllRootNames == <<".hidden", "Casual", "Formal", "README.md">>

Categories == {AllCategoryNames[i] : i \in 1..Len(AllCategoryNames)}

FileNames == {AllFileNames[i] : i \in 1..MaxFiles}

\* the second category holds at most this one file; it is there so that an
\* operation on one category can be seen to leave the other alone
FormalFileNames == {AllFileNames[1]}

\* SpecScan: what else a category directory may hold: a file that is not an
\* outfit, and a sub-directory
OtherFileNames == {"notes.txt"}
SubDirectoryNames == {"old"}

\* the file names that may appear in each category directory
Universe ==
  [c \in Categories |-> IF c = "Casual" THEN FileNames ELSE FormalFileNames]

\* names a caller may pass: real ones, an unknown one, and blank ones
CategoryInputs == Categories \cup {"Sport", "", " "}
FileInputs == FileNames \cup {"", " "}

\* (category, file) arguments: every file argument with a real category; one
\* file argument with the others, which are rejected before the file is read
NameInputs ==
  {p \in CategoryInputs \X FileInputs : p[1] \in Categories \/ p[2] = AllFileNames[1]}

\* str::trim().is_empty()
IsBlank(s) == s \in {"", " "}

FileRank(f) == CHOOSE i \in 1..Len(AllFileNames) : AllFileNames[i] = f
CategoryRank(c) == CHOOSE i \in 1..Len(AllRootNames) : AllRootNames[i] = c

Range(s) == {s[i] : i \in DOMAIN s}

RECURSIVE SetToSeq(_)
SetToSeq(S) ==
  IF S = {} THEN <<>>
  ELSE LET x == CHOOSE y \in S : TRUE IN <<x>> \o SetToSeq(S \ {x})

EmptyMap == [k \in {} |-> 0]

Put(m, k, v) == [x \in DOMAIN m \cup {k} |-> IF x = k THEN v ELSE m[x]]

--------------------------------------------------------------------------
(* domain/models.rs *)

SUPPORTED_LANGUAGES ==
  {"en", "es", "fr", "de", "pt", "it", "nl", "ru", "ja", "zh",
   "ko", "ar", "hi", "sv", "fi", "no", "da", "pl", "hu", "hr",
   "sr", "ro", "el", "tr", "bg", "lt", "lv", "et", "is", "ca",
   "mt", "sk", "cs", "uk", "sl", "bn", "vi", "th", "he", "id",
   "ta", "ms", "te", "pa", "am", "ur", "gu", "sw", "zu", "af", "yo"}

is_supported_language(lang) == lang \in SUPPORTED_LANGUAGES

\* Option<String>: None, or Some(code) written <<code>>
NoLanguage == <<>>

\* the language arguments tried: two supported codes, an unknown one, none
LanguageInputs == {NoLanguage, <<"en">>, <<"fr">>, <<"xyz">>}

CategoryCache_new(total_outfits) ==
  [worn_outfits |-> {}, total_outfits |-> total_outfits]

\* variant: ">" for ">="
is_rotation_complete_strict(e) == Cardinality(e.worn_outfits) > e.total_outfits

\* variant: "==" for ">="
is_rotation_complete_exact(e) == Cardinality(e.worn_outfits) = e.total_outfits

is_rotation_complete(e) == Cardinality(e.worn_outfits) >= e.total_outfits

\* variant: the division done on the integers, before the conversion to f64
rotation_progress_truncated(e) ==
  IF e.total_outfits = 0 THEN <<1, 1>>
  ELSE <<Cardinality(e.worn_outfits) \div e.total_outfits, 1>>

\* the f64 quotient, kept exact as <<numerator, denominator>>
rotation_progress(e) ==
  IF e.total_outfits = 0 THEN <<1, 1>>
  ELSE <<Cardinality(e.worn_outfits), e.total_outfits>>

remaining_outfits(e) ==
  IF e.total_outfits >= Cardinality(e.worn_outfits)
  THEN e.total_outfits - Cardinality(e.worn_outfits)
  ELSE 0

\* variant: marking in a complete entry starts the rotation over
add_worn_wrap(e, file_name) ==
  [e EXCEPT !.worn_outfits =
     IF Cardinality(@) >= e.total_outfits THEN {file_name} ELSE @ \cup {file_name}]

\* variant: marking a worn name again unmarks it
add_worn_toggle(e, file_name) ==
  [e EXCEPT !.worn_outfits =
     IF file_name \in @ THEN @ \ {file_name} ELSE @ \cup {file_name}]

add_worn(e, file_name) == [e EXCEPT !.worn_outfits = @ \cup {file_name}]

\* variant: the entry is rebuilt by CategoryCache::new(0)
reset_to_new(e) == [worn_outfits |-> {}, total_outfits |-> 0]

\* variant: the worn set is not cleared
reset_keep(e) == [e EXCEPT !.worn_outfits = @]

reset(e) == [e EXCEPT !.worn_outfits = {}]

OutfitCache_new == [categories |-> EmptyMap, version |-> 1]

\* variant: HashMap::insert for entry().or_insert_with()
get_or_create_insert(c, category_path, total_outfits) ==
  [c EXCEPT !.categories =
     [x \in DOMAIN @ \cup {category_path} |->
        IF x = category_path
        THEN [worn_outfits |-> {}, total_outfits |-> total_outfits]
        ELSE @[x]]]

\* the cache after the call; the returned &mut entry is .categories[category_path]
get_or_create(c, category_path, total_outfits) ==
  IF category_path \in DOMAIN c.categories THEN c
  ELSE [c EXCEPT !.categories = Put(@, category_path, CategoryCache_new(total_outfits))]

\* variant: HashMap::clear on the categories
reset_all_clear(c) == [c EXCEPT !.categories = EmptyMap]

reset_all(c) ==
  [c EXCEPT !.categories = [k \in DOMAIN @ |-> reset(@[k])]]

remove(c, category_path) ==
  [c EXCEPT !.categories = [k \in DOMAIN @ \ {category_path} |-> @[k]]]

\* a write through the &mut CategoryCache that get_or_create / get_mut returned
SetEntry(c, category_path, e) ==
  [c EXCEPT !.categories = Put(@, category_path, e)]

is_avatar_file(file_name) == file_name \in Range(AllFileNames)

\* FileEntry::new(category_path.join(file_name))
FileEntry_new(category_name, file_name) ==
  [file_name |-> file_name,
   category_name |-> category_name,
   category_path |-> <<Root, category_name>>]

--------------------------------------------------------------------------
(* infrastructure/cache.rs *)

\* variant: worn_outfits is skipped by the serializer
EncodeCache_skip_worn(c) ==
  [version |-> c.version,
   categories |->
     [k \in DOMAIN c.categories |->
        [worn_outfits |-> <<>>,
         total_outfits |-> c.categories[k].total_outfits]]]

\* the JSON text of a cache: sets are written as arrays
EncodeCache(c) ==
  [version |-> c.version,
   categories |->
     [k \in DOMAIN c.categories |->
        [worn_outfits |->
           SortSeq(SetToSeq(c.categories[k].worn_outfits),
                   LAMBDA a, b : FileRank(a) < FileRank(b)),
         total_outfits |-> c.categories[k].total_outfits]]]

\* variant: total_outfits is recomputed from the number of names read
DecodeCache_count_total(doc) ==
  [categories |->
     [k \in DOMAIN doc.categories |->
        [worn_outfits |-> Range(doc.categories[k].worn_outfits),
         total_outfits |-> Len(doc.categories[k].worn_outfits)]],
   version |-> doc.version]

DecodeCache(doc) ==
  [categories |->
     [k \in DOMAIN doc.categories |->
        [worn_outfits |-> Range(doc.categories[k].worn_outfits),
         total_outfits |-> doc.categories[k].total_outfits]],
   version |-> doc.version]

\* no cache file
Missing ==
  [exists |-> FALSE, contents |-> EncodeCache(OutfitCache_new), parses |-> TRUE]

\* a cache file whose content serde_json does not accept (an empty or cut-off
\* text)
Unparsable ==
  [exists |-> TRUE, contents |-> EncodeCache(OutfitCache_new), parses |-> FALSE]

\* the I/O operations that may fail: reading the directories, reading the
\* cache file, writing the cache file, writing the configuration file
IoFaults == {"scan", "read", "write", "config"}
CacheFaults == {"scan", "read", "write"}
NoFaults == {}

\* variant: every load starts from an empty cache
CacheManager_load_fresh(d) == [categories |-> [k \in {} |-> 0], version |-> 1]

CacheManager_load(d) ==
  IF ~d.exists THEN OutfitCache_new ELSE DecodeCache(d.contents)

\* variant: a file that does not parse is read as an empty cache
CacheManager_load_result_lenient(d, failing) ==
  IF d.exists /\ "read" \in failing
  THEN [outcome |-> "OperationFailed", cache |-> OutfitCache_new]
  ELSE IF d.exists /\ ~d.parses
  THEN [outcome |-> "Ok", cache |-> OutfitCache_new]
  ELSE [outcome |-> "Ok", cache |-> CacheManager_load(d)]

\* CacheManager::load: Ok(cache), Err(OperationFailed) when the file cannot be
\* read, Err(DecodingFailed) when its content does not parse
CacheManager_load_result(d, failing) ==
  IF d.exists /\ "read" \in failing
  THEN [outcome |-> "OperationFailed", cache |-> OutfitCache_new]
  ELSE IF d.exists /\ ~d.parses
  THEN [outcome |-> "DecodingFailed", cache |-> OutfitCache_new]
  ELSE [outcome |-> "Ok", cache |-> CacheManager_load(d)]

\* the file content after a save
CacheManager_save(c) ==
  [exists |-> TRUE, contents |-> EncodeCache(c), parses |-> TRUE]

\* the file after a save that returned Err(OperationFailed): as it was when
\* create_dir_all or the opening of the file failed, and cut off when
\* fs::write failed after it had truncated the file
CacheManager_save_failed(d) == {d, Unparsable}

--------------------------------------------------------------------------
(* infrastructure/fs/scanner.rs *)

\* Path::is_file of an entry of a category directory
is_file(entry_name) == entry_name \notin SubDirectoryNames

\* every order in which read_dir, or the completion of the sub-scans, may
\* yield the members of S
Listings(S) ==
  {o \in [1..Cardinality(S) -> S] : \A i, j \in DOMAIN o : o[i] = o[j] => i = j}

\* variant: the names the directory may hold are listed, not the ones it holds
scan_outfits_listed(category_path) ==
  LET category_name == category_path[2]
      outfits == {FileEntry_new(category_name, f) : f \in Universe[category_name]}
  IN  SortSeq(SetToSeq(outfits),
              LAMBDA a, b : FileRank(a.file_name) < FileRank(b.file_name))

\* scan_outfits when read_dir yields the entries in the order of listing
scan_outfits_in(category_path, listing) ==
  LET kept == SelectSeq(listing, LAMBDA g : is_file(g) /\ is_avatar_file(g))
      outfits == [i \in DOMAIN kept |-> FileEntry_new(category_path[2], kept[i])]
  IN  SortSeq(outfits, LAMBDA a, b : FileRank(a.file_name) < FileRank(b.file_name))

\* scan_outfits under one order of read_dir (C19: the order does not matter)
scan_outfits(category_path) ==
  scan_outfits_in(category_path, SetToSeq(fs[category_path[2]]))

has_any_files(category_path) == \E g \in fs[category_path[2]] : is_file(g)

CategoryInfo_new(name, path, state, outfit_count) ==
  [name |-> name, path |-> path, state |-> state,
   outfit_count |-> outfit_count, worn_count |-> 0]

\* variant: the exclusion set is consulted only for a category without outfits
scan_single_category_late(name, path, excluded_categories) ==
  LET outfit_count == Len(scan_outfits(path))
      state == IF outfit_count > 0 THEN "HasOutfits"
               ELSE IF name \in excluded_categories THEN "UserExcluded"
               ELSE IF has_any_files(path) THEN "NoAvatarFiles"
               ELSE "Empty"
  IN  CategoryInfo_new(name, path, state, outfit_count)

\* variant: any entry of the directory counts as a file
scan_single_category_entries(name, path, excluded_categories) ==
  IF name \in excluded_categories
  THEN CategoryInfo_new(name, path, "UserExcluded", 0)
  ELSE LET outfit_count == Len(scan_outfits(path))
           state == IF outfit_count > 0 THEN "HasOutfits"
                    ELSE IF fs[name] # {} THEN "NoAvatarFiles"
                    ELSE "Empty"
       IN  CategoryInfo_new(name, path, state, outfit_count)

scan_single_category(name, path, excluded_categories) ==
  IF name \in excluded_categories
  THEN CategoryInfo_new(name, path, "UserExcluded", 0)
  ELSE LET outfit_count == Len(scan_outfits(path))
           state == IF outfit_count > 0 THEN "HasOutfits"
                    ELSE IF has_any_files(path) THEN "NoAvatarFiles"
                    ELSE "Empty"
       IN  CategoryInfo_new(name, path, state, outfit_count)

\* variant: no sort after the sub-scans have been collected
scan_categories_in_unsorted(arrival, excluded_categories) ==
  [i \in DOMAIN arrival |->
     scan_single_category(arrival[i], <<Root, arrival[i]>>, excluded_categories)]

\* scan_categories when the sub-scans of the category directories complete in
\* the order of arrival
scan_categories_in(arrival, excluded_categories) ==
  LET result == [i \in DOMAIN arrival |->
                   scan_single_category(arrival[i], <<Root, arrival[i]>>,
                                        excluded_categories)]
  IN  SortSeq(result, LAMBDA a, b : CategoryRank(a.name) < CategoryRank(b.name))

\* Maximum number of concurrent category scans
MAX_CONCURRENT_SCANS == 10

\* Path::is_dir of an entry of the root
is_dir(entry_name) == entry_name \notin RootFileNames

\* name.starts_with('.')
starts_with_dot(entry_name) == entry_name \in HiddenDirectoryNames

\* variant: every entry of the root is scanned
dir_entries_all(listing) == listing

\* the (name, path) pairs collected from the entries of the root, in the order
\* read_dir yields them
dir_entries(listing) ==
  SelectSeq(listing, LAMBDA n : is_dir(n) /\ ~starts_with_dot(n))

\* scan_single_category of a directory that may fail to be read: an excluded
\* category returns before its directory is read
sub_scan_ok(name, excluded_categories, unreadable) ==
  name \in excluded_categories \/ name \notin unreadable

\* variant: the sub-scans that failed are left out of the list
scan_categories_from_partial(listing, excluded_categories, unreadable) ==
  LET entries == dir_entries(listing) IN
  [ok |-> TRUE,
   categories |->
     scan_categories_in(
       SelectSeq(entries, LAMBDA n : sub_scan_ok(n, excluded_categories, unreadable)),
       excluded_categories)]

\* scan_categories of a root whose entries arrive as listing, the directories
\* in unreadable failing with an I/O error when they are read:
\* Ok(sorted list) or Err
scan_categories_from(listing, excluded_categories, unreadable) ==
  LET entries == dir_entries(listing) IN
  IF \E i \in DOMAIN entries : ~sub_scan_ok(entries[i], excluded_categories, unreadable)
  THEN [ok |-> FALSE, categories |-> <<>>]
  ELSE [ok |-> TRUE, categories |-> scan_categories_in(entries, excluded_categories)]

\* scan_categories under one order of completion (C19: the order does not
\* matter), every directory readable
scan_categories(excluded_categories) ==
  scan_categories_in(dir_entries(SetToSeq(DOMAIN fs)), excluded_categories)

--------------------------------------------------------------------------
(* application/picker.rs *)

\* Config::new leaves excluded_categories empty
NoExclusions == {}

\* worn counts filled in from the cache (a failed load would leave them 0)
WithWornCounts(categories, loaded) ==
  [i \in DOMAIN categories |->
     IF categories[i].path \in DOMAIN loaded.categories
     THEN [categories[i] EXCEPT
             !.worn_count =
                Cardinality(loaded.categories[categories[i].path].worn_outfits)]
     ELSE categories[i]]

\* variant: the worn counts are read whether or not the load succeeded
load_or_default_unchecked == CacheManager_load(disk)

\* cache_manager.load().await.unwrap_or_default()
load_or_default ==
  LET loading == CacheManager_load_result(disk, io) IN
  IF loading.outcome = "Ok" THEN loading.cache ELSE OutfitCache_new

\* the list get_categories returns when the scan succeeds
get_categories ==
  WithWornCounts(scan_categories(excluded), load_or_default)

\* Ok(list of FileEntry), Err(CategoryNotFound), or the error of the scan
get_outfits(category_name) ==
  IF "scan" \in io
  THEN [ok |-> FALSE, error |-> "OperationFailed", outfits |-> <<>>]
  ELSE
  LET categories == get_categories
      found == {i \in DOMAIN categories : categories[i].name = category_name}
  IN  IF found = {} THEN [ok |-> FALSE, error |-> "CategoryNotFound", outfits |-> <<>>]
      ELSE LET i == CHOOSE j \in found : \A k \in found : j <= k
           IN  [ok |-> TRUE, error |-> "",
                outfits |-> scan_outfits(categories[i].path)]

\* the answer of a query: a flag (is_rotation_complete, is_outfit_worn), a
\* status (worn, total), a list of outfits, the worn names of every category,
\* or the category list
Value(flag, worn, total, outfits, all_worn, categories) ==
  [flag |-> flag, worn |-> worn, total |-> total, outfits |-> outfits,
   all_worn |-> all_worn, categories |-> categories]

NoValue == Value(FALSE, 0, 0, <<>>, <<>>, <<>>)

\* what a call that saved the cache once returned; worn_before is the worn
\* set the call found in the category's entry (empty when it found none),
\* saves the number of times the call ran cache_manager.save, value the
\* answer of a query
Returned(op, category, file, outcome, was_reset, progress, worn_before) ==
  [op |-> op, category |-> category, file |-> file, outcome |-> outcome,
   rotation_was_reset |-> was_reset, rotation_progress |-> progress,
   worn_before |-> worn_before, saves |-> 1, value |-> NoValue]

\* what a call that did not save returned
Unsaved(op, category, file, outcome) ==
  [Returned(op, category, file, outcome, FALSE, <<0, 1>>, {}) EXCEPT !.saves = 0]

NoCall == Unsaved("none", "", "", "")

\* a call that returned without writing the cache file
ReturnOnly(op, category, file, outcome) ==
  /\ last' = Unsaved(op, category, file, outcome)
  /\ disk' = disk

\* cache_manager.save(&cache).await? followed by the return of returned: when
\* the save fails the call returns its error
Persist(c, returned) ==
  IF "write" \in io
  THEN /\ disk' \in CacheManager_save_failed(disk)
       /\ last' = Unsaved(returned.op, returned.category, returned.file,
                          "OperationFailed")
  ELSE /\ disk' = CacheManager_save(c)
       /\ last' = returned

\* a query that returned value without writing the cache file
Answer(op, category, file, outcome, value) ==
  /\ last' = [Unsaved(op, category, file, outcome) EXCEPT !.value = value]
  /\ disk' = disk

\* "\E x \in {e}" names the value of e, as a let binding of the code does;
\* read is the content of the cache file when the call loads it, op the
\* service call that hands the result to the caller
select_random_outfit_at(op, category_name, read) ==
  IF IsBlank(category_name)
  THEN ReturnOnly(op, category_name, "", "InvalidInput")
  ELSE
  \E got \in {get_outfits(category_name)} :
  IF ~got.ok
  THEN ReturnOnly(op, category_name, "", got.error)
  ELSE
  \E outfits \in {got.outfits} :
  IF outfits = <<>>
  THEN ReturnOnly(op, category_name, "", "None")
  ELSE
  \E loading \in {CacheManager_load_result(read, io)} :
  IF loading.outcome # "Ok"
  THEN ReturnOnly(op, category_name, "", loading.outcome)
  ELSE
  \E loaded \in {loading.cache}, category_path \in {outfits[1].category_path} :
  \E c1 \in {get_or_create(loaded, category_path, Len(outfits))} :
  \E e1 \in {c1.categories[category_path]} :
  \E rotation_was_reset \in {is_rotation_complete(e1)} :
  \E e2 \in {IF rotation_was_reset THEN reset(e1) ELSE e1} :
  \E c2 \in {SetEntry(c1, category_path, e2)} :
  \E available \in {SelectSeq(outfits, LAMBDA o : o.file_name \notin e2.worn_outfits)} :
  IF available = <<>>
  THEN ReturnOnly(op, category_name, "", "None")
  ELSE
  \E i \in 1..Len(available) :
  \E outfit \in {available[i]} :
  \E c3 \in {get_or_create(c2, category_path, Len(outfits))} :
  \E e3 \in {add_worn(c3.categories[category_path], outfit.file_name)} :
    Persist(SetEntry(c3, category_path, e3),
            Returned(op, category_name,
                     outfit.file_name, "Some",
                     rotation_was_reset, rotation_progress(e3),
                     e1.worn_outfits))

\* the call with nothing between its load and its save
select_random_outfit(category_name) ==
  select_random_outfit_at("select_random_outfit", category_name, disk)

\* variant: every scanned category is a candidate, whatever its state
select_random_outfit_across_categories_any ==
  IF "scan" \in io
  THEN ReturnOnly("select_random_outfit_across_categories", "", "", "OperationFailed")
  ELSE
  \E categories \in {get_categories} :
  IF categories = <<>>
  THEN ReturnOnly("select_random_outfit_across_categories", "", "", "None")
  ELSE
  \E i \in 1..Len(categories) :
    select_random_outfit_at("select_random_outfit_across_categories",
                            categories[i].name, disk)

select_random_outfit_across_categories ==
  IF "scan" \in io
  THEN ReturnOnly("select_random_outfit_across_categories", "", "", "OperationFailed")
  ELSE
  \E categories \in {get_categories} :
  \E available \in {SelectSeq(categories, LAMBDA c : c.state = "HasOutfits")} :
  IF available = <<>>
  THEN ReturnOnly("select_random_outfit_across_categories", "", "", "None")
  ELSE
  \E i \in 1..Len(available) :
    select_random_outfit_at("select_random_outfit_across_categories",
                            available[i].name, disk)

\* config_service.save: Ok, or the error of a directory or file that cannot
\* be written
ConfigService_save == IF "config" \in io THEN "OperationFailed" ELSE "Ok"

\* the new configuration is saved, then put in place of the old one
update_config(config) ==
  \E saving \in {ConfigService_save} :
    /\ ReturnOnly("update_config", "", "", saving)
    /\ IF saving = "Ok"
       THEN /\ language' = config.language
            /\ excluded' = config.excluded_categories
       ELSE UNCHANGED <<language, excluded>>

\* language: None, or Some(code); the field is set, then the configuration saved
change_language(language_option) ==
  IF language_option # NoLanguage /\ ~is_supported_language(language_option[1])
  THEN /\ ReturnOnly("change_language", "", "", "UnsupportedLanguage")
       /\ language' = language
  ELSE /\ language' = language_option
       /\ ReturnOnly("change_language", "", "", ConfigService_save)

\* the name is inserted, then the configuration saved
exclude_category(category_name) ==
  IF IsBlank(category_name)
  THEN /\ ReturnOnly("exclude_category", category_name, "", "InvalidInput")
       /\ excluded' = excluded
  ELSE /\ excluded' = excluded \cup {category_name}
       /\ ReturnOnly("exclude_category", category_name, "", ConfigService_save)

\* the name is removed, then the configuration saved
include_category(category_name) ==
  /\ excluded' = excluded \ {category_name}
  /\ ReturnOnly("include_category", category_name, "", ConfigService_save)

wear_outfit(category_name, file_name) ==
  IF IsBlank(category_name) \/ IsBlank(file_name)
  THEN ReturnOnly("wear_outfit", category_name, file_name, "InvalidInput")
  ELSE
  \E got \in {get_outfits(category_name)} :
  IF ~got.ok
  THEN ReturnOnly("wear_outfit", category_name, file_name, got.error)
  ELSE
  \E outfits \in {got.outfits} :
  IF outfits = <<>> \/ ~(\E i \in 1..Len(outfits) : outfits[i].file_name = file_name)
  THEN ReturnOnly("wear_outfit", category_name, file_name, "NoOutfitsAvailable")
  ELSE
  \E loading \in {CacheManager_load_result(disk, io)} :
  IF loading.outcome # "Ok"
  THEN ReturnOnly("wear_outfit", category_name, file_name, loading.outcome)
  ELSE
  \E category_path \in {outfits[1].category_path}, loaded \in {loading.cache} :
  \E c1 \in {get_or_create(loaded, category_path, Len(outfits))} :
  \E e1 \in {add_worn(c1.categories[category_path], file_name)} :
    Persist(SetEntry(c1, category_path, e1),
            Returned("wear_outfit", category_name, file_name, "Ok",
                     FALSE, <<0, 1>>,
                     c1.categories[category_path].worn_outfits))

\* variant: the whole cache is reset
reset_category_all(category_name) ==
  \E got \in {get_outfits(category_name)} :
  IF ~got.ok
  THEN ReturnOnly("reset_category", category_name, "", got.error)
  ELSE
  \E outfits \in {got.outfits} :
  IF outfits = <<>>
  THEN ReturnOnly("reset_category", category_name, "", "Ok")
  ELSE
  \E loading \in {CacheManager_load_result(disk, io)} :
  IF loading.outcome # "Ok"
  THEN ReturnOnly("reset_category", category_name, "", loading.outcome)
  ELSE
  \E category_path \in {outfits[1].category_path}, loaded \in {loading.cache} :
    IF category_path \in DOMAIN loaded.categories
    THEN Persist(reset_all(loaded),
                 Returned("reset_category", category_name, "", "Ok",
                          FALSE, <<0, 1>>,
                          loaded.categories[category_path].worn_outfits))
    ELSE ReturnOnly("reset_category", category_name, "", "Ok")

reset_category(category_name) ==
  \E got \in {get_outfits(category_name)} :
  IF ~got.ok
  THEN ReturnOnly("reset_category", category_name, "", got.error)
  ELSE
  \E outfits \in {got.outfits} :
  IF outfits = <<>>
  THEN ReturnOnly("reset_category", category_name, "", "Ok")
  ELSE
  \E loading \in {CacheManager_load_result(disk, io)} :
  IF loading.outcome # "Ok"
  THEN ReturnOnly("reset_category", category_name, "", loading.outcome)
  ELSE
  \E category_path \in {outfits[1].category_path}, loaded \in {loading.cache} :
    IF category_path \in DOMAIN loaded.categories
    THEN Persist(SetEntry(loaded, category_path,
                          reset(loaded.categories[category_path])),
                 Returned("reset_category", category_name, "", "Ok",
                          FALSE, <<0, 1>>,
                          loaded.categories[category_path].worn_outfits))
    ELSE ReturnOnly("reset_category", category_name, "", "Ok")

\* worn_before: every name that was worn in some entry
reset_all_categories ==
  \E loading \in {CacheManager_load_result(disk, io)} :
  IF loading.outcome # "Ok"
  THEN ReturnOnly("reset_all_categories", "", "", loading.outcome)
  ELSE
  \E loaded \in {loading.cache} :
    Persist(reset_all(loaded),
            Returned("reset_all_categories", "", "", "Ok", FALSE, <<0, 1>>,
                     UNION {loaded.categories[k].worn_outfits :
                              k \in DOMAIN loaded.categories}))

select_outfit_manually(category_name, file_name) ==
  IF IsBlank(category_name) \/ IsBlank(file_name)
  THEN ReturnOnly("select_outfit_manually", category_name, file_name, "InvalidInput")
  ELSE
  \E got \in {get_outfits(category_name)} :
  IF ~got.ok
  THEN ReturnOnly("select_outfit_manually", category_name, file_name,
                  got.error)
  ELSE
  \E outfits \in {got.outfits} :
  IF outfits = <<>>
  THEN ReturnOnly("select_outfit_manually", category_name, file_name,
                  "NoOutfitsAvailable")
  ELSE
  \E found \in {{i \in 1..Len(outfits) : outfits[i].file_name = file_name}} :
  IF found = {}
  THEN ReturnOnly("select_outfit_manually", category_name, file_name, "InvalidInput")
  ELSE
  \E outfit \in {outfits[CHOOSE i \in found : \A j \in found : i <= j]} :
  \E loading \in {CacheManager_load_result(disk, io)} :
  IF loading.outcome # "Ok"
  THEN ReturnOnly("select_outfit_manually", category_name, file_name, loading.outcome)
  ELSE
  \E category_path \in {outfit.category_path}, loaded \in {loading.cache} :
  \E c1 \in {get_or_create(loaded, category_path, Len(outfits))} :
  \E e1 \in {c1.categories[category_path]} :
  \E rotation_was_reset \in {is_rotation_complete(e1)} :
  \E e2 \in {IF rotation_was_reset THEN reset(e1) ELSE e1} :
  \E e3 \in {add_worn(e2, outfit.file_name)} :
    Persist(SetEntry(c1, category_path, e3),
            Returned("select_outfit_manually", category_name,
                     outfit.file_name, "Some",
                     rotation_was_reset, rotation_progress(e3),
                     e1.worn_outfits))

\* the outcome of the cache_manager.load().await? of a query
load_outcome == CacheManager_load_result(disk, io).outcome

\* Ok((worn, total)), Err(CategoryNotFound), or the error of the scan or of the
\* load
rotation_status(category_name) ==
  LET got == get_outfits(category_name) IN
  IF ~got.ok THEN [ok |-> FALSE, error |-> got.error, worn |-> 0, total |-> 0]
  ELSE IF got.outfits = <<>> THEN [ok |-> TRUE, error |-> "", worn |-> 0, total |-> 0]
  ELSE IF load_outcome # "Ok"
  THEN [ok |-> FALSE, error |-> load_outcome, worn |-> 0, total |-> 0]
  ELSE LET category_path == got.outfits[1].category_path
           loaded == CacheManager_load(disk)
       IN  [ok |-> TRUE, error |-> "",
            worn |-> IF category_path \in DOMAIN loaded.categories
                     THEN Cardinality(loaded.categories[category_path].worn_outfits)
                     ELSE 0,
            total |-> Len(got.outfits)]

get_rotation_status(category_name) ==
  \E status \in {rotation_status(category_name)} :
  IF ~status.ok
  THEN Answer("get_rotation_status", category_name, "", status.error, NoValue)
  ELSE Answer("get_rotation_status", category_name, "", "Ok",
              [NoValue EXCEPT !.worn = status.worn, !.total = status.total])

\* variant: without the test on total
rotation_complete_any_total(worn, total) == worn >= total

\* the test of OutfitPickerService::is_rotation_complete on (worn, total)
rotation_complete(worn, total) == total > 0 /\ worn >= total

\* OutfitPickerService::is_rotation_complete
service_is_rotation_complete(category_name) ==
  \E status \in {rotation_status(category_name)} :
  IF ~status.ok
  THEN Answer("is_rotation_complete", category_name, "", status.error, NoValue)
  ELSE Answer("is_rotation_complete", category_name, "", "Ok",
              [NoValue EXCEPT !.flag = rotation_complete(status.worn, status.total)])

\* the set get_category_worn_set returns when its load succeeds
get_category_worn_set(category_path) ==
  LET loaded == CacheManager_load(disk) IN
  IF category_path \in DOMAIN loaded.categories
  THEN loaded.categories[category_path].worn_outfits
  ELSE {}

get_all_worn_outfits ==
  IF load_outcome # "Ok"
  THEN Answer("get_all_worn_outfits", "", "", load_outcome, NoValue)
  ELSE
  \E loaded \in {CacheManager_load(disk)} :
  \E result \in {{<<k, SortSeq(SetToSeq(loaded.categories[k].worn_outfits),
                                 LAMBDA a, b : FileRank(a) < FileRank(b))>> :
                     k \in {x \in DOMAIN loaded.categories :
                              loaded.categories[x].worn_outfits # {}}}} :
    Answer("get_all_worn_outfits", "", "", "Ok",
           [NoValue EXCEPT !.all_worn =
              SortSeq(SetToSeq(result),
                      LAMBDA a, b : CategoryRank(a[1][2]) < CategoryRank(b[1][2]))])

\* variant: a file counts as worn when any category's entry holds its name
outfit_worn_anywhere(category_name, file_name) ==
  LET got == get_outfits(category_name)
      loaded == CacheManager_load(disk)
  IN  IF ~got.ok THEN [ok |-> FALSE, error |-> got.error, flag |-> FALSE]
      ELSE IF got.outfits = <<>> THEN [ok |-> TRUE, error |-> "", flag |-> FALSE]
      ELSE IF load_outcome # "Ok"
      THEN [ok |-> FALSE, error |-> load_outcome, flag |-> FALSE]
      ELSE [ok |-> TRUE, error |-> "",
            flag |-> \E k \in DOMAIN loaded.categories :
                       file_name \in loaded.categories[k].worn_outfits]

\* Ok(bool) or Err(CategoryNotFound) of is_outfit_worn
outfit_worn(category_name, file_name) ==
  LET got == get_outfits(category_name) IN
  IF ~got.ok THEN [ok |-> FALSE, error |-> got.error, flag |-> FALSE]
  ELSE IF got.outfits = <<>> THEN [ok |-> TRUE, error |-> "", flag |-> FALSE]
  ELSE IF load_outcome # "Ok"
  THEN [ok |-> FALSE, error |-> load_outcome, flag |-> FALSE]
  ELSE [ok |-> TRUE, error |-> "",
        flag |-> file_name \in get_category_worn_set(got.outfits[1].category_path)]

is_outfit_worn(category_name, file_name) ==
  \E r \in {outfit_worn(category_name, file_name)} :
  IF ~r.ok
  THEN Answer("is_outfit_worn", category_name, file_name, r.error, NoValue)
  ELSE Answer("is_outfit_worn", category_name, file_name, "Ok",
              [NoValue EXCEPT !.flag = r.flag])

\* variant: the entry is made when it is missing, and the cache saved
get_unworn_outfits_creating(category_name) ==
  \E got \in {get_outfits(category_name)} :
  IF ~got.ok
  THEN Answer("get_unworn_outfits", category_name, "", got.error, NoValue)
  ELSE IF got.outfits = <<>>
  THEN Answer("get_unworn_outfits", category_name, "", "Ok", NoValue)
  ELSE
  \E c1 \in {get_or_create(CacheManager_load(disk), got.outfits[1].category_path,
                            Len(got.outfits))} :
    /\ disk' = CacheManager_save(c1)
    /\ last' = [Unsaved("get_unworn_outfits", category_name, "", "Ok") EXCEPT
                  !.value = [NoValue EXCEPT !.outfits =
                     SelectSeq(got.outfits,
                               LAMBDA o : o.file_name \notin
                                 c1.categories[o.category_path].worn_outfits)]]

\* Ok(list) or Err(CategoryNotFound) of get_unworn_outfits
unworn_outfits(category_name) ==
  LET got == get_outfits(category_name) IN
  IF ~got.ok THEN [ok |-> FALSE, error |-> got.error, outfits |-> <<>>]
  ELSE IF got.outfits = <<>> THEN [ok |-> TRUE, error |-> "", outfits |-> <<>>]
  ELSE IF load_outcome # "Ok"
  THEN [ok |-> FALSE, error |-> load_outcome, outfits |-> <<>>]
  ELSE LET worn_set == get_category_worn_set(got.outfits[1].category_path)
       IN  [ok |-> TRUE, error |-> "",
            outfits |-> SelectSeq(got.outfits, LAMBDA o : o.file_name \notin worn_set)]

get_unworn_outfits(category_name) ==
  \E r \in {unworn_outfits(category_name)} :
  IF ~r.ok
  THEN Answer("get_unworn_outfits", category_name, "", r.error, NoValue)
  ELSE Answer("get_unworn_outfits", category_name, "", "Ok",
              [NoValue EXCEPT !.outfits = r.outfits])

\* Ok(list) or Err(CategoryNotFound) of get_worn_outfits
worn_outfits(category_name) ==
  LET got == get_outfits(category_name) IN
  IF ~got.ok THEN [ok |-> FALSE, error |-> got.error, outfits |-> <<>>]
  ELSE IF got.outfits = <<>> THEN [ok |-> TRUE, error |-> "", outfits |-> <<>>]
  ELSE IF load_outcome # "Ok"
  THEN [ok |-> FALSE, error |-> load_outcome, outfits |-> <<>>]
  ELSE LET worn_set == get_category_worn_set(got.outfits[1].category_path)
       IN  [ok |-> TRUE, error |-> "",
            outfits |-> SelectSeq(got.outfits, LAMBDA o : o.file_name \in worn_set)]

get_worn_outfits(category_name) ==
  \E r \in {worn_outfits(category_name)} :
  IF ~r.ok
  THEN Answer("get_worn_outfits", category_name, "", r.error, NoValue)
  ELSE Answer("get_worn_outfits", category_name, "", "Ok",
              [NoValue EXCEPT !.outfits = r.outfits])

\* the get_categories call of a caller
list_categories ==
  IF "scan" \in io
  THEN Answer("get_categories", "", "", "OperationFailed", NoValue)
  ELSE Answer("get_categories", "", "", "Ok",
              [NoValue EXCEPT !.categories = get_categories])

--------------------------------------------------------------------------
(* application/use_cases/get_categories.rs *)

\* the cache key a bare category name spells: a path of that one component
NameAsKey(category_name) == <<category_name>>

\* the worn counts as GetCategoriesUseCase::execute fills them in: the entry
\* is looked up under category.category.name
WithWornCountsByName(categories, loaded) ==
  [i \in DOMAIN categories |->
     IF NameAsKey(categories[i].name) \in DOMAIN loaded.categories
     THEN [categories[i] EXCEPT
             !.worn_count =
                Cardinality(loaded.categories[NameAsKey(categories[i].name)].worn_outfits)]
     ELSE categories[i]]

GetCategoriesUseCase_execute(excluded_categories) ==
  IF "scan" \in io
  THEN Answer("GetCategoriesUseCase::execute", "", "", "OperationFailed", NoValue)
  ELSE Answer("GetCategoriesUseCase::execute", "", "", "Ok",
              [NoValue EXCEPT !.categories =
                 WithWornCountsByName(scan_categories(excluded_categories),
                                      load_or_default)])

--------------------------------------------------------------------------
(* application/session.rs *)

OutfitSession_new == [category_skipped |-> EmptyMap, global_skipped |-> {}]

skip_in_category(session, category, file_name) ==
  [session EXCEPT !.category_skipped =
     Put(@, category,
         (IF category \in DOMAIN @ THEN @[category] ELSE {}) \cup {file_name})]

skip_global(session, file_name) ==
  [session EXCEPT !.global_skipped = @ \cup {file_name}]

is_skipped_in_category(session, category, file_name) ==
  /\ category \in DOMAIN session.category_skipped
  /\ file_name \in session.category_skipped[category]

skipped_count_in_category(session, category) ==
  IF category \in DOMAIN session.category_skipped
  THEN Cardinality(session.category_skipped[category])
  ELSE 0

\* variant: every per-category set is dropped
session_reset_category_clear(session, category) ==
  [session EXCEPT !.category_skipped = EmptyMap]

\* OutfitSession::reset_category
session_reset_category(session, category) ==
  [session EXCEPT !.category_skipped =
     [k \in DOMAIN @ \ {category} |-> @[k]]]

reset_global(session) == [session EXCEPT !.global_skipped = {}]

\* OutfitSession::reset_all
session_reset_all(session) == OutfitSession_new

--------------------------------------------------------------------------
(* interface/tui/app.rs *)

\* Option<usize>: None, or Some(i) written i
None == -1

\* the key or call that has just been handled
Event(key, category, file) == [key |-> key, category |-> category, file |-> file]

NoEvent == Event("none", "", "")

\* App::new, after the first-time setup; the worn-outfit and settings screens
\* are left out, with their list states and input buffer
App_new ==
  [screen |-> "Main",
   main_menu_state |-> 0,
   category_list_state |-> None,
   outfit_list_state |-> None,
   categories |-> <<>>,
   current_category_outfits |-> <<>>,
   selected_category_index |-> None,
   session |-> OutfitSession_new,
   should_quit |-> FALSE,
   panicked |-> FALSE,
   event |-> NoEvent]

\* MainMenuItem::all()
MainMenuItem_all ==
  <<"PickRandom", "BrowseCategories", "ViewWorn", "ResetProgress", "Settings", "Quit">>

\* the screens whose keys are all handled here; on the worn-outfit and
\* settings menus the user presses Esc only
ListScreens == {"Main", "CategoryList", "CategoryDetail"}

\* a handler that leaves the panic of an index out of bounds behind
Panicked(a) == [a EXCEPT !.panicked = TRUE]

\* no service call was made, or only ones that change nothing and whose answer
\* goes into the message line
Quiet == last' = NoCall /\ disk' = disk

\* (i + 1) % len, or 0 from None
next_index(selected, len) == IF selected = None THEN 0 ELSE (selected + 1) % len

\* i - 1, wrapping from 0 to len - 1, or 0 from None
previous_index(selected, len) ==
  IF selected = None THEN 0 ELSE IF selected = 0 THEN len - 1 ELSE selected - 1

\* App::next_item
next_item(a) ==
  IF a.screen = "Main"
  THEN [a EXCEPT !.main_menu_state = next_index(@, Len(MainMenuItem_all))]
  ELSE IF a.screen = "CategoryList" /\ a.categories # <<>>
  THEN [a EXCEPT !.category_list_state = next_index(@, Len(a.categories))]
  ELSE IF a.screen = "CategoryDetail" /\ a.current_category_outfits # <<>>
  THEN [a EXCEPT !.outfit_list_state = next_index(@, Len(a.current_category_outfits))]
  ELSE a

\* App::previous_item
previous_item(a) ==
  IF a.screen = "Main"
  THEN [a EXCEPT !.main_menu_state = previous_index(@, Len(MainMenuItem_all))]
  ELSE IF a.screen = "CategoryList" /\ a.categories # <<>>
  THEN [a EXCEPT !.category_list_state = previous_index(@, Len(a.categories))]
  ELSE IF a.screen = "CategoryDetail" /\ a.current_category_outfits # <<>>
  THEN [a EXCEPT !.outfit_list_state = previous_index(@, Len(a.current_category_outfits))]
  ELSE a

\* App::go_back
go_back(a) ==
  IF a.screen \in {"CategoryList", "Help", "WornOutfitsMenu", "SettingsMenu"}
  THEN [a EXCEPT !.screen = "Main"]
  ELSE IF a.screen = "CategoryDetail"
  THEN [a EXCEPT !.screen = "CategoryList"]
  ELSE [a EXCEPT !.should_quit = TRUE]

--------------------------------------------------------------------------
(* interface/tui/events.rs *)

\* app.picker.get_categories().await.unwrap_or_default()
categories_or_default == IF "scan" \in io THEN <<>> ELSE get_categories

file_names(outfits) == [k \in DOMAIN outfits |-> outfits[k].file_name]

\* handle_enter, Screen::Main
handle_enter_main ==
  \E item \in {MainMenuItem_all[app.main_menu_state + 1]} :
  IF item = "PickRandom"
  THEN /\ select_random_outfit_across_categories
       /\ app' = app
  ELSE IF item = "ResetProgress"
  THEN /\ reset_all_categories
       /\ app' = app
  ELSE IF item = "BrowseCategories"
  THEN \E categories \in {categories_or_default} :
         /\ app' = [app EXCEPT
                      !.screen = "CategoryList",
                      !.categories = categories,
                      !.category_list_state = IF categories # <<>> THEN 0 ELSE @]
         /\ Quiet
  ELSE /\ app' = IF item = "ViewWorn" THEN [app EXCEPT !.screen = "WornOutfitsMenu"]
                 ELSE IF item = "Settings" THEN [app EXCEPT !.screen = "SettingsMenu"]
                 ELSE [app EXCEPT !.should_quit = TRUE]
       /\ Quiet

\* handle_enter, Screen::CategoryList
handle_enter_category_list ==
  /\ Quiet
  /\ \E i \in {app.category_list_state} :
     IF i = None \/ i >= Len(app.categories)
     THEN app' = app
     ELSE IF app.categories[i + 1].state # "HasOutfits"
     THEN app' = app
     ELSE
     \E got \in {get_outfits(app.categories[i + 1].name)} :
       IF ~got.ok
       THEN app' = [app EXCEPT !.selected_category_index = i]
       ELSE app' = [app EXCEPT
                      !.selected_category_index = i,
                      !.current_category_outfits = file_names(got.outfits),
                      !.outfit_list_state = IF got.outfits # <<>> THEN 0 ELSE @,
                      !.screen = "CategoryDetail"]

\* handle_enter, Screen::CategoryDetail: the two lists are indexed unchecked
handle_enter_category_detail ==
  \E outfit_idx \in {app.outfit_list_state}, cat_idx \in {app.selected_category_index} :
  IF outfit_idx = None \/ cat_idx = None
  THEN app' = app /\ Quiet
  ELSE IF cat_idx >= Len(app.categories) \/ outfit_idx >= Len(app.current_category_outfits)
  THEN app' = Panicked(app) /\ Quiet
  ELSE
  \E category_name \in {app.categories[cat_idx + 1].name} :
    /\ wear_outfit(category_name, app.current_category_outfits[outfit_idx + 1])
    /\ app' = IF last'.outcome = "Ok"
              THEN [app EXCEPT !.session = session_reset_category(@, category_name)]
              ELSE app

handle_enter ==
  IF app.screen = "Main" THEN handle_enter_main
  ELSE IF app.screen = "CategoryList" THEN handle_enter_category_list
  ELSE handle_enter_category_detail

handle_skip ==
  /\ Quiet
  /\ \E outfit_idx \in {app.outfit_list_state}, cat_idx \in {app.selected_category_index},
        len \in {Len(app.current_category_outfits)} :
     IF app.screen # "CategoryDetail" \/ outfit_idx = None \/ outfit_idx >= len \/ cat_idx = None
     THEN app' = app
     ELSE IF cat_idx >= Len(app.categories)
     THEN app' = Panicked(app)
     ELSE app' = [app EXCEPT
                    !.session = skip_in_category(@, app.categories[cat_idx + 1].name,
                                   app.current_category_outfits[outfit_idx + 1]),
                    !.outfit_list_state =
                       IF outfit_idx + 1 < len THEN outfit_idx + 1
                       ELSE IF outfit_idx > 0 THEN outfit_idx - 1
                       ELSE @]

handle_reset ==
  IF app.screen = "CategoryDetail"
  THEN /\ Quiet
       /\ \E cat_idx \in {app.selected_category_index} :
          IF cat_idx = None THEN app' = app
          ELSE IF cat_idx >= Len(app.categories) THEN app' = Panicked(app)
          ELSE app' = [app EXCEPT !.session =
                         session_reset_category(@, app.categories[cat_idx + 1].name)]
  ELSE IF app.screen = "CategoryList"
  THEN /\ app' = app
       /\ \E i \in {app.category_list_state} :
          IF i = None \/ i >= Len(app.categories) THEN Quiet
          ELSE reset_category(app.categories[i + 1].name)
  ELSE /\ Quiet
       /\ app' = [app EXCEPT !.session = session_reset_all(@)]

\* the session and its skipped outfits are not consulted
handle_pick_random ==
  IF app.screen = "CategoryList"
  THEN /\ app' = app
       /\ \E i \in {app.category_list_state} :
          IF i = None \/ i >= Len(app.categories) THEN Quiet
          ELSE IF app.categories[i + 1].state # "HasOutfits" THEN Quiet
          ELSE select_random_outfit(app.categories[i + 1].name)
  ELSE
  \E cat_idx \in {app.selected_category_index} :
     IF app.screen # "CategoryDetail" \/ cat_idx = None
     THEN app' = app /\ Quiet
     ELSE IF cat_idx >= Len(app.categories)
     THEN app' = Panicked(app) /\ Quiet
     ELSE /\ app' = app
          /\ select_random_outfit(app.categories[cat_idx + 1].name)

--------------------------------------------------------------------------
(* Initial state: any directory tree, no cache file, a fresh OutfitCache *)

Trees == {t \in [Categories -> SUBSET FileNames] : \A c \in Categories : t[c] \subseteq Universe[c]}

\* SpecRotation: the first category may hold up to MaxRotationFiles files
RotationTrees ==
  {t \in [Categories -> SUBSET {AllFileNames[i] : i \in 1..MaxRotationFiles}] :
     t["Formal"] \subseteq Universe["Formal"]}

\* SpecScan: directories that hold outfit files, other files and sub-directories
ScanTrees ==
  {t \in [Categories -> SUBSET ({AllFileNames[i] : i \in 1..MaxScanFiles}
                                  \cup OtherFileNames \cup SubDirectoryNames)] :
     t["Formal"] \subseteq FormalFileNames \cup OtherFileNames \cup SubDirectoryNames}

\* SpecExclusion: directories that hold at most one outfit file and another file
ExclusionTrees == [Categories -> SUBSET (FormalFileNames \cup OtherFileNames)]

\* SpecRoot: the category directories of SpecExclusion, and a root that may also
\* hold a regular file and a hidden directory (both listed as empty)
RootTrees ==
  UNION {{t \in [Categories \cup extra -> SUBSET (FormalFileNames \cup OtherFileNames)] :
            \A n \in extra : t[n] = {}} :
         extra \in SUBSET (RootFileNames \cup HiddenDirectoryNames)}

Paths == {<<Root, c>> : c \in Categories}

Applied(op, key, file, total) == [op |-> op, key |-> key, file |-> file, total |-> total]

NoOp == Applied("none", <<Root, "">>, "", 0)

\* what a scan was given and what it returned: the exclusion set, the order in
\* which the entries arrived, the CategoryInfo list or the FileEntry list
Scanned(op, category, excluded_categories, order, categories, outfits) ==
  [op |-> op, category |-> category, excluded |-> excluded_categories,
   order |-> order, categories |-> categories, outfits |-> outfits,
   unreadable |-> {}, ok |-> TRUE]

NoScan == Scanned("none", "", {}, <<>>, <<>>, <<>>)

\* the sub-scans of one scan_categories call: the number of directories
\* collected, the index of the next one to start, the ones in flight, and how
\* many times each has been scanned
Pool(n, next, in_flight, scans) ==
  [dir_entries |-> n, next |-> next, in_flight |-> in_flight, scans |-> scans]

NewPool(n) == Pool(n, 1, {}, [d \in 1..n |-> 0])

NoPool == NewPool(0)

\* the two callers of SpecInterleave
Callers == {1, 2}

\* a caller's call: pc is "idle" before it, "loaded" between its read of the
\* cache file and its write, "saved" after; seen is the file content it read;
\* overlapped tells whether the other call was between its read and its write
\* when this one wrote
InFlight(pc, category, seen, file, overlapped, rank) ==
  [pc |-> pc, category |-> category, seen |-> seen, file |-> file,
   overlapped |-> overlapped, rank |-> rank]

NoCalls == [p \in Callers |-> InFlight("idle", "", Missing, "", FALSE, 0)]

Init ==
  /\ fs \in Trees
  /\ disk = Missing
  /\ last = NoCall
  /\ hist = [c \in Categories |-> <<>>]
  /\ cache = OutfitCache_new
  /\ call = NoOp
  /\ excluded = NoExclusions
  /\ scanned = NoScan
  /\ proc = NoCalls
  /\ pool = NoPool
  /\ io = NoFaults
  /\ app = App_new
  /\ language = NoLanguage

InitRotation ==
  /\ fs \in RotationTrees
  /\ disk = Missing
  /\ last = NoCall
  /\ hist = [c \in Categories |-> <<>>]
  /\ cache = OutfitCache_new
  /\ call = NoOp
  /\ excluded = NoExclusions
  /\ scanned = NoScan
  /\ proc = NoCalls
  /\ pool = NoPool
  /\ io = NoFaults
  /\ app = App_new
  /\ language = NoLanguage

\* SpecScan: the exclusion set is any that Config::with_exclusions accepts
InitScan ==
  /\ fs \in ScanTrees
  /\ disk = Missing
  /\ last = NoCall
  /\ hist = [c \in Categories |-> <<>>]
  /\ cache = OutfitCache_new
  /\ call = NoOp
  /\ excluded \in SUBSET Categories
  /\ scanned = NoScan
  /\ proc = NoCalls
  /\ pool = NoPool
  /\ io = NoFaults
  /\ app = App_new
  /\ language = NoLanguage

InitRoot ==
  /\ fs \in RootTrees
  /\ disk = Missing
  /\ last = NoCall
  /\ hist = [c \in Categories |-> <<>>]
  /\ cache = OutfitCache_new
  /\ call = NoOp
  /\ excluded \in SUBSET Categories
  /\ scanned = NoScan
  /\ proc = NoCalls
  /\ pool = NoPool
  /\ io = NoFaults
  /\ app = App_new
  /\ language = NoLanguage

\* SpecFault: each category holds at most one outfit file; there is no cache
\* file or one that does not parse, and any of the I/O operations on the
\* directories and the cache file may be failing
InitFault ==
  /\ fs \in [Categories -> SUBSET FormalFileNames]
  /\ disk \in {Missing, Unparsable}
  /\ last = NoCall
  /\ hist = [c \in Categories |-> <<>>]
  /\ cache = OutfitCache_new
  /\ call = NoOp
  /\ excluded = {}
  /\ scanned = NoScan
  /\ proc = NoCalls
  /\ pool = NoPool
  /\ io \in SUBSET CacheFaults
  /\ app = App_new
  /\ language = NoLanguage

InitBuffer ==
  /\ fs = [c \in Categories |-> {}]
  /\ disk = Missing
  /\ last = NoCall
  /\ hist = [c \in Categories |-> <<>>]
  /\ cache = OutfitCache_new
  /\ call = NoOp
  /\ excluded = {}
  /\ scanned = NoScan
  /\ proc = NoCalls
  /\ pool \in {NewPool(n) : n \in 0..MaxDirs}
  /\ io = NoFaults
  /\ app = App_new
  /\ language = NoLanguage

InitExclusion ==
  /\ fs \in ExclusionTrees
  /\ disk = Missing
  /\ last = NoCall
  /\ hist = [c \in Categories |-> <<>>]
  /\ cache = OutfitCache_new
  /\ call = NoOp
  /\ excluded = NoExclusions
  /\ scanned = NoScan
  /\ proc = NoCalls
  /\ pool = NoPool
  /\ io = NoFaults
  /\ app = App_new
  /\ language = NoLanguage

--------------------------------------------------------------------------
(* Spec: the service operations, and outfit files coming and going *)

SelectRandom ==
  \E n \in CategoryInputs :
    select_random_outfit(n) /\ UNCHANGED <<fs, hist, cache, call, excluded, scanned, proc, pool, io, app, language>>

SelectManually ==
  \E p \in NameInputs :
    select_outfit_manually(p[1], p[2]) /\ UNCHANGED <<fs, hist, cache, call, excluded, scanned, proc, pool, io, app, language>>

Wear ==
  \E p \in NameInputs :
    wear_outfit(p[1], p[2]) /\ UNCHANGED <<fs, hist, cache, call, excluded, scanned, proc, pool, io, app, language>>

ResetCategory ==
  \E n \in CategoryInputs :
    reset_category(n) /\ UNCHANGED <<fs, hist, cache, call, excluded, scanned, proc, pool, io, app, language>>

ResetAll ==
  reset_all_categories /\ UNCHANGED <<fs, hist, cache, call, excluded, scanned, proc, pool, io, app, language>>

\* the user adds an outfit file to a category directory
AddFile ==
  \E c \in Categories, f \in FileNames :
    /\ f \in Universe[c] \ fs[c]
    /\ fs' = [fs EXCEPT ![c] = @ \cup {f}]
    /\ last' = NoCall
    /\ UNCHANGED <<disk, hist, cache, call, excluded, scanned, proc, pool, io, app, language>>

\* the user deletes an outfit file from a category directory
RemoveFile ==
  \E c \in Categories, f \in FileNames :
    /\ f \in fs[c]
    /\ fs' = [fs EXCEPT ![c] = @ \ {f}]
    /\ last' = NoCall
    /\ UNCHANGED <<disk, hist, cache, call, excluded, scanned, proc, pool, io, app, language>>

Next ==
  \/ SelectRandom
  \/ SelectManually
  \/ Wear
  \/ ResetCategory
  \/ ResetAll
  \/ AddFile
  \/ RemoveFile

Spec == Init /\ [][Next]_vars

--------------------------------------------------------------------------
(* SpecRotation: only random selections, the directory tree never changes *)

RotationSelect ==
  \E n \in Categories :
    /\ Len(hist[n]) < MaxCalls
    /\ select_random_outfit(n)
    /\ hist' = IF last'.outcome = "Some"
               THEN [hist EXCEPT ![n] = Append(@, last'.file)]
               ELSE hist
    /\ UNCHANGED <<fs, cache, call, excluded, scanned, proc, pool, io, app, language>>

NextRotation == RotationSelect

SpecRotation == InitRotation /\ [][NextRotation]_vars

--------------------------------------------------------------------------
(* SpecCache: the operations of OutfitCache and of its entries *)

CacheGetOrCreate ==
  \E k \in Paths, t \in 0..MaxTotal :
    /\ cache' = get_or_create(cache, k, t)
    /\ call' = Applied("get_or_create", k, "", t)
    /\ UNCHANGED <<fs, disk, last, hist, excluded, scanned, proc, pool, io, app, language>>

CacheAddWorn ==
  \E k \in DOMAIN cache.categories, f \in FileNames :
    /\ cache' = SetEntry(cache, k, add_worn(cache.categories[k], f))
    /\ call' = Applied("add_worn", k, f, 0)
    /\ UNCHANGED <<fs, disk, last, hist, excluded, scanned, proc, pool, io, app, language>>

CacheReset ==
  \E k \in DOMAIN cache.categories :
    /\ cache' = SetEntry(cache, k, reset(cache.categories[k]))
    /\ call' = Applied("reset", k, "", 0)
    /\ UNCHANGED <<fs, disk, last, hist, excluded, scanned, proc, pool, io, app, language>>

CacheResetAll ==
  /\ cache' = reset_all(cache)
  /\ call' = Applied("reset_all", <<Root, "">>, "", 0)
  /\ UNCHANGED <<fs, disk, last, hist, excluded, scanned, proc, pool, io, app, language>>

CacheRemove ==
  \E k \in Paths :
    /\ cache' = remove(cache, k)
    /\ call' = Applied("remove", k, "", 0)
    /\ UNCHANGED <<fs, disk, last, hist, excluded, scanned, proc, pool, io, app, language>>

NextCache ==
  \/ CacheGetOrCreate
  \/ CacheAddWorn
  \/ CacheReset
  \/ CacheResetAll
  \/ CacheRemove

SpecCache == Init /\ [][NextCache]_vars

--------------------------------------------------------------------------
(* SpecInterleave: two callers make one random selection each; a call reads *)
(* the cache file at its load and writes it at its save, and the other call *)
(* may run in between                                                       *)

\* caller p starts a call and runs it up to the return of its cache load; a
\* call on a category without outfits returns before loading
CallLoad ==
  \E p \in Callers, n \in Categories :
    /\ proc[p].pc = "idle"
    /\ IF get_outfits(n).outfits = <<>>
       THEN /\ select_random_outfit(n)
            /\ proc' = [proc EXCEPT ![p] = InFlight("returned", n, disk, "", FALSE, 0)]
       ELSE /\ proc' = [proc EXCEPT ![p] = InFlight("loaded", n, disk, "", FALSE, 0)]
            /\ UNCHANGED <<disk, last>>
    /\ UNCHANGED <<fs, hist, cache, call, excluded, scanned, pool, io, app, language>>

\* caller p runs the rest of its call, from the cache it loaded to its save
CallSave ==
  \E p \in Callers :
    /\ proc[p].pc = "loaded"
    /\ select_random_outfit_at("select_random_outfit", proc[p].category, proc[p].seen)
    /\ proc' = [proc EXCEPT ![p] =
                  InFlight("saved", proc[p].category, proc[p].seen, last'.file,
                           \E q \in Callers \ {p} : proc[q].pc = "loaded",
                           1 + Cardinality({q \in Callers : proc[q].pc = "saved"}))]
    /\ UNCHANGED <<fs, hist, cache, call, excluded, scanned, pool, io, app, language>>

NextInterleave ==
  \/ CallLoad
  \/ CallSave

SpecInterleave == Init /\ [][NextInterleave]_vars

--------------------------------------------------------------------------
(* SpecScan: the scanner, under any exclusion set and any order in which    *)
(* the directories are read and the sub-scans complete                      *)

ScanCategories ==
  \E arrival \in Listings(Categories) :
    /\ scanned' = Scanned("scan_categories", "", excluded, arrival,
                          scan_categories_in(arrival, excluded), <<>>)
    /\ UNCHANGED <<fs, disk, last, hist, cache, call, excluded, proc, pool, io, app, language>>

ScanOutfits ==
  \E c \in Categories :
    \E listing \in Listings(fs[c]) :
      /\ scanned' = Scanned("scan_outfits", c, {}, listing, <<>>,
                            scan_outfits_in(<<Root, c>>, listing))
      /\ UNCHANGED <<fs, disk, last, hist, cache, call, excluded, proc, pool, io, app, language>>

NextScan ==
  \/ ScanCategories
  \/ ScanOutfits

SpecScan == InitScan /\ [][NextScan]_vars

--------------------------------------------------------------------------
(* SpecRoot: scan_categories of a root that holds more than category        *)
(* directories, some of its directories failing to be read                  *)

ScanRoot ==
  \E listing \in Listings(DOMAIN fs) :
    \E unreadable \in SUBSET {n \in DOMAIN fs : is_dir(n)} :
      \E result \in {scan_categories_from(listing, excluded, unreadable)} :
        /\ scanned' = [Scanned("scan_categories", "", excluded, listing,
                               result.categories, <<>>)
                         EXCEPT !.unreadable = unreadable, !.ok = result.ok]
        /\ UNCHANGED <<fs, disk, last, hist, cache, call, excluded, proc, pool, io, app, language>>

NextRoot == ScanRoot

SpecRoot == InitRoot /\ [][NextRoot]_vars

--------------------------------------------------------------------------
(* SpecBuffer: buffer_unordered(MAX_CONCURRENT_SCANS) over the sub-scans of *)
(* the collected directories                                                *)

\* variant: a sub-scan is started whenever a directory is waiting
has_capacity_always(in_flight) == TRUE

\* buffer_unordered starts the next future only while fewer than
\* MAX_CONCURRENT_SCANS are in flight
has_capacity(in_flight) == Cardinality(in_flight) < MAX_CONCURRENT_SCANS

\* the next directory of the stream is taken and its sub-scan started
StartSubScan ==
  /\ pool.next <= pool.dir_entries
  /\ has_capacity(pool.in_flight)
  /\ pool' = [pool EXCEPT !.next = @ + 1,
                          !.in_flight = @ \cup {pool.next},
                          !.scans[pool.next] = @ + 1]
  /\ UNCHANGED <<fs, disk, last, hist, cache, call, excluded, scanned, proc, io, app, language>>

\* one of the sub-scans in flight completes and its result is collected
CompleteSubScan ==
  \E d \in pool.in_flight :
    /\ pool' = [pool EXCEPT !.in_flight = @ \ {d}]
    /\ UNCHANGED <<fs, disk, last, hist, cache, call, excluded, scanned, proc, io, app, language>>

NextBuffer ==
  \/ StartSubScan
  \/ CompleteSubScan

SpecBuffer == InitBuffer /\ [][NextBuffer]_vars

--------------------------------------------------------------------------
(* SpecExclusion: selections and wear while categories are excluded and     *)
(* included                                                                 *)

ExcludeCategory ==
  \E n \in CategoryInputs :
    exclude_category(n) /\ UNCHANGED <<fs, hist, cache, call, scanned, proc, pool, io, app, language>>

IncludeCategory ==
  \E n \in CategoryInputs :
    include_category(n) /\ UNCHANGED <<fs, hist, cache, call, scanned, proc, pool, io, app, language>>

SelectAcross ==
  select_random_outfit_across_categories
    /\ UNCHANGED <<fs, hist, cache, call, excluded, scanned, proc, pool, io, app, language>>

NextExclusion ==
  \/ ExcludeCategory
  \/ IncludeCategory
  \/ SelectRandom
  \/ SelectManually
  \/ Wear
  \/ SelectAcross

SpecExclusion == InitExclusion /\ [][NextExclusion]_vars

--------------------------------------------------------------------------
(* SpecConfig: the calls that change the configuration, while the           *)
(* configuration file can and cannot be written                             *)

ConfigFaults == {"config"}

InitConfig ==
  /\ fs \in [Categories -> SUBSET FormalFileNames]
  /\ disk = Missing
  /\ last = NoCall
  /\ hist = [c \in Categories |-> <<>>]
  /\ cache = OutfitCache_new
  /\ call = NoOp
  /\ excluded = NoExclusions
  /\ scanned = NoScan
  /\ proc = NoCalls
  /\ pool = NoPool
  /\ io \in SUBSET ConfigFaults
  /\ app = App_new
  /\ language = NoLanguage

UpdateConfig ==
  \E l \in LanguageInputs, e \in SUBSET Categories :
    /\ update_config([language |-> l, excluded_categories |-> e])
    /\ UNCHANGED <<fs, disk, hist, cache, call, scanned, proc, pool, io, app>>

ChangeLanguage ==
  \E l \in LanguageInputs :
    /\ change_language(l)
    /\ UNCHANGED <<fs, disk, hist, cache, call, excluded, scanned, proc, pool, io, app>>

\* the configuration file becomes writable, or stops being so
ConfigFaultsChange ==
  /\ io' = IF "config" \in io THEN io \ ConfigFaults ELSE io \cup ConfigFaults
  /\ last' = NoCall
  /\ UNCHANGED <<fs, disk, hist, cache, call, excluded, scanned, proc, pool, app, language>>

NextConfig ==
  \/ UpdateConfig
  \/ ChangeLanguage
  \/ ExcludeCategory
  \/ IncludeCategory
  \/ SelectAcross
  \/ ConfigFaultsChange

SpecConfig == InitConfig /\ [][NextConfig]_vars

--------------------------------------------------------------------------
(* SpecTui: the key events of the terminal interface, and outfit files      *)
(* coming and going between them                                            *)

\* run: the categories are loaded before the first key is read
\* every category holds one outfit file when the interface starts
InitTui ==
  /\ fs = [c \in Categories |-> FormalFileNames]
  /\ disk = Missing
  /\ last = NoCall
  /\ hist = [c \in Categories |-> <<>>]
  /\ cache = OutfitCache_new
  /\ call = NoOp
  /\ excluded = NoExclusions
  /\ scanned = NoScan
  /\ proc = NoCalls
  /\ pool = NoPool
  /\ io = NoFaults
  /\ language = NoLanguage
  /\ app = [App_new EXCEPT
              !.categories = categories_or_default,
              !.category_list_state = IF categories_or_default # <<>> THEN 0 ELSE @]

\* the event loop reads keys until the application quits (or has panicked)
Running == ~app.should_quit /\ ~app.panicked

KeyEnter ==
  /\ Running
  /\ app.screen \in ListScreens
  /\ handle_enter
  /\ UNCHANGED <<fs, hist, cache, call, excluded, scanned, proc, pool, io, language>>

KeyDown ==
  /\ Running
  /\ app.screen \in ListScreens
  /\ app' = next_item(app)
  /\ Quiet
  /\ UNCHANGED <<fs, hist, cache, call, excluded, scanned, proc, pool, io, language>>

KeyUp ==
  /\ Running
  /\ app.screen \in ListScreens
  /\ app' = previous_item(app)
  /\ Quiet
  /\ UNCHANGED <<fs, hist, cache, call, excluded, scanned, proc, pool, io, language>>

KeyEsc ==
  /\ Running
  /\ app' = go_back(app)
  /\ Quiet
  /\ UNCHANGED <<fs, hist, cache, call, excluded, scanned, proc, pool, io, language>>

KeySkip ==
  /\ Running
  /\ app.screen \in ListScreens
  /\ handle_skip
  /\ UNCHANGED <<fs, hist, cache, call, excluded, scanned, proc, pool, io, language>>

KeyReset ==
  /\ Running
  /\ app.screen \in ListScreens
  /\ handle_reset
  /\ UNCHANGED <<fs, hist, cache, call, excluded, scanned, proc, pool, io, language>>

KeyPickRandom ==
  /\ Running
  /\ app.screen \in ListScreens
  /\ handle_pick_random
  /\ UNCHANGED <<fs, hist, cache, call, excluded, scanned, proc, pool, io, language>>

NextTui ==
  \/ KeyEnter
  \/ KeyDown
  \/ KeyUp
  \/ KeyEsc
  \/ KeySkip
  \/ KeyReset
  \/ KeyPickRandom
  \/ RemoveFile

SpecTui == InitTui /\ [][NextTui]_vars

--------------------------------------------------------------------------
(* SpecQuery: the read-only queries, between calls that change the cache    *)
(* and files that come and go                                               *)

GetRotationStatus ==
  \E n \in CategoryInputs :
    get_rotation_status(n) /\ UNCHANGED <<fs, hist, cache, call, excluded, scanned, proc, pool, io, app, language>>

IsRotationComplete ==
  \E n \in CategoryInputs :
    service_is_rotation_complete(n)
      /\ UNCHANGED <<fs, hist, cache, call, excluded, scanned, proc, pool, io, app, language>>

GetWornOutfits ==
  \E n \in CategoryInputs :
    get_worn_outfits(n) /\ UNCHANGED <<fs, hist, cache, call, excluded, scanned, proc, pool, io, app, language>>

GetUnwornOutfits ==
  \E n \in CategoryInputs :
    get_unworn_outfits(n) /\ UNCHANGED <<fs, hist, cache, call, excluded, scanned, proc, pool, io, app, language>>

IsOutfitWorn ==
  \E p \in NameInputs :
    is_outfit_worn(p[1], p[2])
      /\ UNCHANGED <<fs, hist, cache, call, excluded, scanned, proc, pool, io, app, language>>

GetAllWornOutfits ==
  get_all_worn_outfits /\ UNCHANGED <<fs, hist, cache, call, excluded, scanned, proc, pool, io, app, language>>

GetCategories ==
  list_categories /\ UNCHANGED <<fs, hist, cache, call, excluded, scanned, proc, pool, io, app, language>>

ExecuteGetCategories ==
  /\ GetCategoriesUseCase_execute(excluded)
  /\ UNCHANGED <<fs, hist, cache, call, excluded, scanned, proc, pool, io, app, language>>

NextQuery ==
  \/ SelectRandom
  \/ ResetCategory
  \/ AddFile
  \/ RemoveFile
  \/ GetRotationStatus
  \/ IsRotationComplete
  \/ GetWornOutfits
  \/ GetUnwornOutfits
  \/ IsOutfitWorn
  \/ GetAllWornOutfits
  \/ GetCategories

SpecQuery == Init /\ [][NextQuery]_vars

--------------------------------------------------------------------------
(* SpecFault: the service calls while directory reads, cache reads and      *)
(* cache writes may fail, and the cache file may not parse                  *)

\* the environment: I/O operations start and stop failing between calls
FaultsChange ==
  \E failing \in SUBSET CacheFaults :
    /\ failing # io
    /\ io' = failing
    /\ last' = NoCall
    /\ UNCHANGED <<fs, disk, hist, cache, call, excluded, scanned, proc, pool, app, language>>

NextFault ==
  \/ SelectRandom
  \/ ExecuteGetCategories
  \/ SelectManually
  \/ Wear
  \/ ResetCategory
  \/ ResetAll
  \/ GetRotationStatus
  \/ IsRotationComplete
  \/ GetWornOutfits
  \/ GetUnwornOutfits
  \/ IsOutfitWorn
  \/ GetAllWornOutfits
  \/ GetCategories
  \/ FaultsChange

SpecFault == InitFault /\ [][NextFault]_vars

--------------------------------------------------------------------------
(* SpecSession: the operations of one OutfitSession value                   *)

SessionSkipInCategory ==
  \E c \in Categories, f \in FileNames :
    /\ app' = [app EXCEPT !.session = skip_in_category(@, c, f),
                          !.event = Event("skip_in_category", c, f)]
    /\ UNCHANGED <<fs, disk, last, hist, cache, call, excluded, scanned, proc, pool, io, language>>

SessionSkipGlobal ==
  \E f \in FileNames :
    /\ app' = [app EXCEPT !.session = skip_global(@, f),
                          !.event = Event("skip_global", "", f)]
    /\ UNCHANGED <<fs, disk, last, hist, cache, call, excluded, scanned, proc, pool, io, language>>

SessionResetCategory ==
  \E c \in Categories :
    /\ app' = [app EXCEPT !.session = session_reset_category(@, c),
                          !.event = Event("reset_category", c, "")]
    /\ UNCHANGED <<fs, disk, last, hist, cache, call, excluded, scanned, proc, pool, io, language>>

SessionResetGlobal ==
  /\ app' = [app EXCEPT !.session = reset_global(@),
                        !.event = Event("reset_global", "", "")]
  /\ UNCHANGED <<fs, disk, last, hist, cache, call, excluded, scanned, proc, pool, io, language>>

SessionResetAll ==
  /\ app' = [app EXCEPT !.session = session_reset_all(@),
                        !.event = Event("reset_all", "", "")]
  /\ UNCHANGED <<fs, disk, last, hist, cache, call, excluded, scanned, proc, pool, io, language>>

NextSession ==
  \/ SessionSkipInCategory
  \/ SessionSkipGlobal
  \/ SessionResetCategory
  \/ SessionResetGlobal
  \/ SessionResetAll

SpecSession == Init /\ [][NextSession]_vars

--------------------------------------------------------------------------
(* Properties *)

\* what a load issued now returns
Persisted == CacheManager_load(disk)

PathOf(category_name) == <<Root, category_name>>

HasEntry(c, category_name) == PathOf(category_name) \in DOMAIN c.categories

EntryOf(c, category_name) == c.categories[PathOf(category_name)]

WornOf(c, category_name) ==
  IF HasEntry(c, category_name) THEN EntryOf(c, category_name).worn_outfits ELSE {}

Selections == {"select_random_outfit", "select_outfit_manually"}

Succeeded == last.outcome \in {"Some", "Ok"}

\* a/b < c/d for positive denominators
Less(p, q) == p[1] * q[2] < q[1] * p[2]

\* C1 (SpecRotation): the files random selection returns in a category of N
\* files fall into rotation cycles of N consecutive returns; no file is
\* returned twice in one cycle, and only files of the category are returned.
C1_NoRepeatWithinCycle ==
  \A c \in Categories :
    LET n == Cardinality(fs[c]) IN
    /\ Range(hist[c]) \subseteq fs[c]
    /\ \A i, j \in DOMAIN hist[c] :
         (i < j /\ (i - 1) \div n = (j - 1) \div n) => hist[c][i] # hist[c][j]

\* C1 witness: a category of two or more files is in its second cycle, and a
\* file of the first cycle has been returned again
C1_Witness ==
  /\ Cardinality(fs["Casual"]) >= 2
  /\ \E i, j \in DOMAIN hist["Casual"] :
       /\ i < j
       /\ hist["Casual"][i] = hist["Casual"][j]

\* C2 (SpecRotation): in a category of N >= 1 files with no prior entry every
\* random selection returns a file; the first N report rotation_was_reset =
\* false; the (N+1)-th reports true and leaves the persisted worn set equal to
\* {the file chosen}, with progress 1/N.
C2_ResetOnExhaustion ==
  \A c \in Categories :
    LET n == Cardinality(fs[c])
        k == Len(hist[c])
    IN  (last.op = "select_random_outfit" /\ last.category = c /\ n >= 1)
          => /\ last.outcome = "Some"
             /\ k >= 1
             /\ (k <= n => ~last.rotation_was_reset)
             /\ (k = n + 1 =>
                   /\ last.rotation_was_reset
                   /\ WornOf(Persisted, c) = {last.file}
                   /\ last.rotation_progress = <<1, n>>)

\* C2 witness: the (N+1)-th selection in a category of N >= 2 files returned
C2_Witness ==
  /\ last.op = "select_random_outfit"
  /\ last.category = "Casual"
  /\ Cardinality(fs["Casual"]) >= 2
  /\ Len(hist["Casual"]) = Cardinality(fs["Casual"]) + 1
  /\ last.rotation_was_reset

C3_ProgressIsKOverN ==
  \A c \in Categories :
    LET n == Cardinality(fs[c])
        k == Len(hist[c])
    IN  (last.op = "select_random_outfit" /\ last.category = c
           /\ last.outcome = "Some" /\ k <= n)
          => last.rotation_progress[1] * n = k * last.rotation_progress[2]

C3_ProgressGrows ==
  (/\ last.op = "select_random_outfit" /\ last.outcome = "Some"
   /\ last'.op = "select_random_outfit" /\ last'.outcome = "Some"
   /\ last'.category = last.category
   /\ ~last'.rotation_was_reset)
    => Less(last.rotation_progress, last'.rotation_progress)

\* C3 (SpecRotation): while the N files of a category are selected one after
\* another without a reset, the progress returned by the k-th selection is k/N,
\* and a selection that follows one in the same category returns a strictly
\* greater progress.
C3_ProgressWithinCycle == []C3_ProgressIsKOverN /\ [][C3_ProgressGrows]_vars

\* C3 witness: the N-th selection of a category of N >= 3 files returned 1.0
C3_Witness ==
  /\ last.op = "select_random_outfit"
  /\ last.category = "Casual"
  /\ Cardinality(fs["Casual"]) >= 3
  /\ Len(hist["Casual"]) = Cardinality(fs["Casual"])
  /\ last.rotation_progress = <<3, 3>>

\* C4 (Spec): a random selection on a category that has at least one file
\* returns a selection.
C4_SelectionAlwaysReturns ==
  (/\ last.op = "select_random_outfit"
   /\ last.category \in Categories
   /\ fs[last.category] # {})
    => last.outcome = "Some"

C5_ResetStep ==
  \A c \in Categories :
    (last'.op \in Selections /\ last'.outcome = "Some" /\ last'.category = c)
      => (last'.rotation_was_reset
            <=> /\ HasEntry(Persisted, c)
                /\ Cardinality(EntryOf(Persisted, c).worn_outfits)
                     >= EntryOf(Persisted, c).total_outfits)

\* C5 (Spec): a selection reports a reset exactly when the entry it found had
\* a worn-count >= the total recorded in that entry, whatever the number of
\* files the category has now.
C5_ResetOnRecordedTotal == [][C5_ResetStep]_vars

\* C5 witness: a selection has reset the rotation of a category that held an
\* unworn file and more files than the recorded total
C5_Witness ==
  /\ last.op = "select_random_outfit"
  /\ last.outcome = "Some"
  /\ last.rotation_was_reset
  /\ fs[last.category] \ last.worn_before # {}
  /\ Cardinality(fs[last.category]) > EntryOf(Persisted, last.category).total_outfits

\* every entry of cache p is in cache q with the same total_outfits
C6_SameTotals(p, q) ==
  \A k \in DOMAIN p.categories :
    /\ k \in DOMAIN q.categories
    /\ q.categories[k].total_outfits = p.categories[k].total_outfits

C6_TotalStep ==
  (last'.op \in Selections \cup {"wear_outfit", "reset_category",
                                 "reset_all_categories", "none"})
    => C6_SameTotals(Persisted, Persisted')

\* C6 (Spec): no selection, wear, reset or change of the directory tree
\* removes an entry of the persisted cache or changes its total_outfits.
C6_TotalNeverChanges == [][C6_TotalStep]_vars

\* C6 witness: a reset has cleared an entry whose total differs from the
\* number of files the category has now
C6_Witness ==
  /\ last.op \in {"reset_category", "reset_all_categories"}
  /\ HasEntry(Persisted, "Casual")
  /\ EntryOf(Persisted, "Casual").worn_outfits = {}
  /\ EntryOf(Persisted, "Casual").total_outfits # Cardinality(fs["Casual"])
  /\ fs["Casual"] # {}

\* the step resets the entry of category c
C7_IsReset(c) ==
  \/ last'.op = "reset_all_categories"
  \/ last'.op = "reset_category" /\ last'.category = c
  \/ last'.op \in Selections /\ last'.category = c /\ last'.rotation_was_reset

\* every entry of cache p is in cache q with as many worn names or more
C7_NoFewerWorn(p, q, category_name) ==
  LET k == PathOf(category_name) IN
  k \in DOMAIN p.categories
    => /\ k \in DOMAIN q.categories
       /\ Cardinality(q.categories[k].worn_outfits)
            >= Cardinality(p.categories[k].worn_outfits)

C7_WornStep ==
  \A c \in Categories :
    ~C7_IsReset(c) => C7_NoFewerWorn(Persisted, Persisted', c)

\* C7 (Spec): a step that is not a reset of an entry (reset_category on it,
\* reset_all_categories, or a selection reporting rotation_was_reset) leaves
\* the size of its worn set equal or larger.
C7_WornGrowsBetweenResets == [][C7_WornStep]_vars

\* C7 witness: wear_outfit has added a name to an entry that was already
\* complete
C7_Witness ==
  /\ last.op = "wear_outfit"
  /\ last.outcome = "Ok"
  /\ last.file \notin last.worn_before
  /\ Cardinality(last.worn_before) >= EntryOf(Persisted, last.category).total_outfits

C8_GetOrCreateStep ==
  (call'.op = "get_or_create")
    => LET k == call'.key IN
       IF k \in DOMAIN cache.categories
       THEN cache' = cache
       ELSE /\ DOMAIN cache'.categories = DOMAIN cache.categories \cup {k}
            /\ cache'.categories[k].worn_outfits = {}
            /\ cache'.categories[k].total_outfits = call'.total
            /\ \A j \in DOMAIN cache.categories :
                 cache'.categories[j] = cache.categories[j]
            /\ cache'.version = cache.version

\* C8 (SpecCache): get_or_create on a present key changes nothing (the
\* supplied total is ignored); on an absent key it adds an entry with the
\* supplied total and an empty worn set and changes no other entry.
C8_GetOrCreate == [][C8_GetOrCreateStep]_vars

\* C8 witness: get_or_create was given a total other than the recorded one,
\* on the key of an entry with worn names
C8_Witness ==
  /\ call.op = "get_or_create"
  /\ call.key \in DOMAIN cache.categories
  /\ cache.categories[call.key].worn_outfits # {}
  /\ cache.categories[call.key].total_outfits # call.total

C9_WearStep ==
  (last'.op = "wear_outfit" /\ last'.outcome = "Ok")
    => LET c == last'.category IN
       /\ last'.file \in WornOf(Persisted', c)
       /\ last'.file \in WornOf(Persisted, c)
            => EntryOf(Persisted', c) = EntryOf(Persisted, c)

\* C9 (Spec): after wear_outfit the name is in the category's worn set, and
\* wear_outfit of a name that is already there leaves the worn set, and so the
\* worn-count, as it was.
C9_MarkingIsIdempotent == [][C9_WearStep]_vars

\* C9 witness: wear_outfit has marked a name that was already worn, in an
\* entry with another worn name
C9_Witness ==
  /\ last.op = "wear_outfit"
  /\ last.outcome = "Ok"
  /\ last.file \in last.worn_before
  /\ Cardinality(last.worn_before) >= 2

\* C10 (Spec): when a random selection, a manual selection or a wear has
\* succeeded, the cache file exists and a load returns the selected or worn
\* file in the category's worn set.
C10_PersistedBeforeReturn ==
  (last.op \in Selections \cup {"wear_outfit"} /\ Succeeded)
    => /\ disk.exists
       /\ last.file \in WornOf(Persisted, last.category)

\* C10 witness: a manual selection has succeeded in a category whose entry
\* another call had created
C10_Witness ==
  /\ last.op = "select_outfit_manually"
  /\ last.outcome = "Some"
  /\ last.worn_before # {}
  /\ last.file \in WornOf(Persisted, last.category)

--------------------------------------------------------------------------
\* C11 (SpecCache): saving a cache and loading the saved file gives a cache
\* with the same category keys and, for every key, the same worn set and the
\* same total
C11_SaveThenLoad ==
  LET loaded == CacheManager_load(CacheManager_save(cache)) IN
  /\ DOMAIN loaded.categories = DOMAIN cache.categories
  /\ \A k \in DOMAIN cache.categories :
       /\ loaded.categories[k].worn_outfits = cache.categories[k].worn_outfits
       /\ loaded.categories[k].total_outfits = cache.categories[k].total_outfits

\* two categories, one worn file each, with totals that differ from the
\* number of worn names
C11_Witness ==
  /\ DOMAIN cache.categories = Paths
  /\ \A k \in Paths :
       /\ Cardinality(cache.categories[k].worn_outfits) = 1
       /\ cache.categories[k].total_outfits = 2
  /\ CacheManager_save(cache).exists
  /\ CacheManager_load(CacheManager_save(cache)) = cache

--------------------------------------------------------------------------
--------------------------------------------------------------------------
\* a manual selection r took the cache from p to q: it reset exactly when the
\* entry it found had reached its recorded total
C13_ManualOn(p, q, r) ==
  LET c == r.category
      reached == /\ HasEntry(p, c)
                 /\ Cardinality(EntryOf(p, c).worn_outfits)
                      >= EntryOf(p, c).total_outfits
  IN  IF reached
      THEN r.rotation_was_reset /\ WornOf(q, c) = {r.file}
      ELSE ~r.rotation_was_reset /\ WornOf(q, c) = WornOf(p, c) \cup {r.file}

C13_ManualStep ==
  (last'.op = "select_outfit_manually" /\ last'.outcome = "Some")
    => C13_ManualOn(Persisted, Persisted', last')

\* C13 (Spec): a manual selection of an existing file resets like a random
\* one: if the entry it finds has a worn-count >= its recorded total, the call
\* reports rotation_was_reset and leaves the worn set equal to {the file};
\* otherwise it reports no reset and adds the file to the worn set it found.
C13_ManualResetsWhenComplete == [][C13_ManualStep]_vars

\* C13 witness: a manual selection has reset an entry with two worn names
C13_Witness ==
  /\ last.op = "select_outfit_manually"
  /\ last.outcome = "Some"
  /\ last.rotation_was_reset
  /\ Cardinality(last.worn_before) >= 2
  /\ WornOf(Persisted, last.category) = {last.file}

--------------------------------------------------------------------------
\* the manual selection that has just returned named an existing category and
\* a non-blank file that the category does not hold
C14_MissingFile(r) ==
  /\ r.op = "select_outfit_manually"
  /\ r.category \in Categories
  /\ ~IsBlank(r.file)
  /\ r.file \notin fs[r.category]

C14_MissingFileStep ==
  C14_MissingFile(last')
    => /\ disk' = disk
       /\ last'.outcome = IF fs[last'.category] = {} THEN "NoOutfitsAvailable"
                          ELSE "InvalidInput"

--------------------------------------------------------------------------
\* wear_outfit r took the cache from p to q and the cache file from d to e
C15_WearOn(p, q, d, e, r) ==
  LET c == r.category IN
  /\ r.outcome = "Ok"
       => /\ r.file \in fs[c]
          /\ WornOf(q, c) = WornOf(p, c) \cup {r.file}
  /\ (c \in Categories /\ ~IsBlank(r.file) /\ r.file \notin fs[c])
       => /\ r.outcome = "NoOutfitsAvailable"
          /\ e = d

C15_WearStep ==
  (last'.op = "wear_outfit")
    => C15_WearOn(Persisted, Persisted', disk, disk', last')

\* C15 (Spec): a successful wear_outfit leaves the category's worn set equal
\* to the worn set before plus the named file, also when the worn-count had
\* already reached the recorded total; on a category without files, or for a
\* file the category does not hold, it fails and the cache file is not written.
C15_WearNeverClears == [][C15_WearStep]_vars

\* C15 witness: wear_outfit has added a new name to an entry whose rotation
\* was already complete
C15_Witness ==
  /\ last.op = "wear_outfit"
  /\ last.outcome = "Ok"
  /\ last.worn_before # {}
  /\ last.file \notin last.worn_before
  /\ Cardinality(last.worn_before) >= EntryOf(Persisted, last.category).total_outfits
  /\ WornOf(Persisted, last.category) = last.worn_before \cup {last.file}

--------------------------------------------------------------------------
\* the categories a scan made now reports with state HasOutfits
C16_HasOutfits ==
  LET categories == scan_categories(excluded) IN
  {categories[i].name : i \in {j \in DOMAIN categories :
                                 categories[j].state = "HasOutfits"}}

\* a cross-category pick r took the cache from p to q and the file from d to e
C16_AcrossOn(p, q, d, e, r) ==
  IF C16_HasOutfits = {}
  THEN r.outcome = "None" /\ e = d
  ELSE r.outcome = "Some"
         => LET c == r.category
                reached == /\ HasEntry(p, c)
                           /\ Cardinality(EntryOf(p, c).worn_outfits)
                                >= EntryOf(p, c).total_outfits
            IN  /\ c \in C16_HasOutfits
                /\ r.file \in fs[c]
                /\ r.rotation_was_reset = reached
                /\ IF reached THEN WornOf(q, c) = {r.file}
                   ELSE /\ r.file \notin WornOf(p, c)
                        /\ WornOf(q, c) = WornOf(p, c) \cup {r.file}
                /\ \A o \in Categories \ {c} : WornOf(q, o) = WornOf(p, o)

C16_AcrossStep ==
  (last'.op = "select_random_outfit_across_categories")
    => C16_AcrossOn(Persisted, Persisted', disk, disk', last')

\* C16 (SpecExclusion): the cross-category pick returns a file only from a
\* category that the scan reports as HasOutfits, and treats that category as
\* a random selection on it does (reset when the entry is complete, an unworn
\* file otherwise, no other entry touched); when the scan reports no category
\* as HasOutfits it returns no selection and the cache file is not written.
C16_AcrossPicksHasOutfits == [][C16_AcrossStep]_vars

\* C16 witness: the pick has returned a file while the other category, which
\* holds an outfit file too, was excluded
C16_Witness ==
  /\ last.op = "select_random_outfit_across_categories"
  /\ last.outcome = "Some"
  /\ \E o \in Categories \ {last.category} :
       /\ o \in excluded
       /\ \E g \in fs[o] : is_avatar_file(g)

\* C17 (SpecExclusion): no random selection, manual selection, wear or
\* cross-category pick succeeds on a category whose name is in the exclusion
\* set: none returns a file of it or adds a file to its worn set.
C17_ExcludedIsUnavailable ==
  (last.op \in Selections \cup {"wear_outfit",
                                "select_random_outfit_across_categories"}
     /\ Succeeded)
    => last.category \notin excluded

--------------------------------------------------------------------------
\* C18 (SpecScan): scan_categories reports every category directory, and one
\* whose name is in the exclusion set with state UserExcluded and count 0,
\* whatever the directory holds.
C18_ExcludedIsUserExcluded ==
  (scanned.op = "scan_categories")
    => /\ {scanned.categories[i].name : i \in DOMAIN scanned.categories} = Categories
       /\ \A i \in DOMAIN scanned.categories :
            scanned.categories[i].name \in scanned.excluded
              => /\ scanned.categories[i].state = "UserExcluded"
                 /\ scanned.categories[i].outfit_count = 0

\* C18 witness: a scan has reported two excluded categories, one that holds
\* an outfit file and one that holds nothing
C18_Witness ==
  /\ scanned.op = "scan_categories"
  /\ scanned.excluded = Categories
  /\ \E c \in Categories : \E g \in fs[c] : is_file(g) /\ is_avatar_file(g)
  /\ \E c \in Categories : fs[c] = {}
  /\ \A i \in DOMAIN scanned.categories : scanned.categories[i].state = "UserExcluded"

\* C19 (SpecScan): the list scan_categories returns is ascending by category
\* name and is the list it returns under every other order of arrival; the
\* list scan_outfits returns is ascending by file name and is the list it
\* returns under every other order in which the directory is read.
C19_SortedWhateverTheOrder ==
  /\ (scanned.op = "scan_categories")
       => /\ \A i, j \in DOMAIN scanned.categories :
               i < j => CategoryRank(scanned.categories[i].name)
                          < CategoryRank(scanned.categories[j].name)
          /\ \A o \in Listings(Categories) :
               scan_categories_in(o, scanned.excluded) = scanned.categories
  /\ (scanned.op = "scan_outfits")
       => /\ \A i, j \in DOMAIN scanned.outfits :
               i < j => FileRank(scanned.outfits[i].file_name)
                          < FileRank(scanned.outfits[j].file_name)
          /\ \A o \in Listings(fs[scanned.category]) :
               scan_outfits_in(<<Root, scanned.category>>, o) = scanned.outfits

\* C19 witness: the sub-scans arrived in descending order of name and the
\* list is in ascending order
C19_Witness ==
  /\ scanned.op = "scan_categories"
  /\ Len(scanned.order) >= 2
  /\ CategoryRank(scanned.order[1]) > CategoryRank(scanned.order[2])
  /\ CategoryRank(scanned.categories[1].name) < CategoryRank(scanned.categories[2].name)

\* category c, not excluded, is reported by info as the predicate on what
\* its directory holds says: any tells whether the directory counts as
\* non-empty
C20_StateIs(info, any) ==
  LET matching == {g \in fs[info.name] : is_file(g) /\ is_avatar_file(g)} IN
  /\ info.state = "HasOutfits" <=> matching # {}
  /\ info.state = "NoAvatarFiles" <=> (matching = {} /\ any)
  /\ info.state = "Empty" <=> (matching = {} /\ ~any)

\* C20 as stated (SpecScan): a category that is not excluded is reported
\* Empty exactly when its directory has no entries, NoAvatarFiles exactly when
\* it has an entry but no matching file, HasOutfits when it has a matching file.
C20_EmptyIffNoEntries ==
  (scanned.op = "scan_categories")
    => \A i \in DOMAIN scanned.categories :
         scanned.categories[i].name \notin scanned.excluded
           => C20_StateIs(scanned.categories[i],
                          fs[scanned.categories[i].name] # {})

\* C20 amended (SpecScan): a category that is not excluded is reported Empty
\* exactly when its directory holds no regular file (it may hold
\* sub-directories), NoAvatarFiles exactly when it holds a regular file but no
\* matching one, and HasOutfits, with the number of matching files as its
\* count, exactly when it holds a matching file.
C20_EmptyIffNoFiles ==
  (scanned.op = "scan_categories")
    => \A i \in DOMAIN scanned.categories :
         scanned.categories[i].name \notin scanned.excluded
           => /\ C20_StateIs(scanned.categories[i],
                             \E g \in fs[scanned.categories[i].name] : is_file(g))
              /\ scanned.categories[i].outfit_count
                   = Cardinality({g \in fs[scanned.categories[i].name] :
                                    is_file(g) /\ is_avatar_file(g)})

\* C20 witness: a scan has reported a directory that holds only a
\* sub-directory as Empty and one that holds only another file as NoAvatarFiles
C20_Witness ==
  /\ scanned.op = "scan_categories"
  /\ \E i \in DOMAIN scanned.categories :
       /\ fs[scanned.categories[i].name] = SubDirectoryNames
       /\ scanned.categories[i].state = "Empty"
  /\ \E i \in DOMAIN scanned.categories :
       /\ fs[scanned.categories[i].name] = OtherFileNames
       /\ scanned.categories[i].state = "NoAvatarFiles"

--------------------------------------------------------------------------
\* reset_category r took the cache from p to q and the cache file from d to e
C24_ResetOn(p, q, d, e, r) ==
  LET c == r.category IN
  IF /\ r.outcome = "Ok"
     /\ \E g \in fs[c] : is_file(g) /\ is_avatar_file(g)
     /\ HasEntry(p, c)
  THEN /\ r.saves = 1
       /\ DOMAIN q.categories = DOMAIN p.categories
       /\ EntryOf(q, c).worn_outfits = {}
       /\ EntryOf(q, c).total_outfits = EntryOf(p, c).total_outfits
       /\ \A k \in DOMAIN p.categories \ {PathOf(c)} :
            q.categories[k] = p.categories[k]
  ELSE e = d /\ r.saves = 0

C24_ResetStep ==
  (last'.op = "reset_category")
    => C24_ResetOn(Persisted, Persisted', disk, disk', last')

\* C24 (Spec): reset_category on a category that has files and a cache entry
\* empties the worn set of that entry and leaves its total, the set of keys
\* and every other entry as they were; on a category without files or without
\* an entry (and on an unknown name) it leaves the cache file as it was and
\* does not save.
C24_ResetOneCategoryOnly == [][C24_ResetStep]_vars

\* C24 witness: a reset has emptied an entry that had worn names while the
\* other entry keeps its own
C24_Witness ==
  /\ last.op = "reset_category"
  /\ last.outcome = "Ok"
  /\ last.worn_before # {}
  /\ WornOf(Persisted, last.category) = {}
  /\ \E o \in Categories \ {last.category} : WornOf(Persisted, o) # {}

\* reset_all_categories r took the cache from p to q and left the file e
C25_ResetAllOn(p, q, e, r) ==
  /\ r.outcome = "Ok"
  /\ r.saves = 1
  /\ e.exists
  /\ DOMAIN q.categories = DOMAIN p.categories
  /\ \A k \in DOMAIN p.categories :
       /\ q.categories[k].worn_outfits = {}
       /\ q.categories[k].total_outfits = p.categories[k].total_outfits

C25_ResetAllStep ==
  (last'.op = "reset_all_categories")
    => C25_ResetAllOn(Persisted, Persisted', disk', last')

\* C25 (Spec): reset_all_categories leaves every entry with an empty worn
\* set, keeps the set of keys and every total, and writes the cache file by
\* one save.
C25_ResetAllKeepsKeysAndTotals == [][C25_ResetAllStep]_vars

\* C25 witness: a whole-cache reset has emptied two entries, of which one had
\* worn names
C25_Witness ==
  /\ last.op = "reset_all_categories"
  /\ last.worn_before # {}
  /\ DOMAIN Persisted.categories = Paths
  /\ \A c \in Categories : WornOf(Persisted, c) = {}


Queries ==
  {"get_rotation_status", "is_rotation_complete", "get_worn_outfits",
   "get_unworn_outfits", "is_outfit_worn", "get_all_worn_outfits", "get_categories"}

HasOutfitFiles(category_name) ==
  \E g \in fs[category_name] : is_file(g) /\ is_avatar_file(g)

C26_QueryStep == (last'.op \in Queries) => (disk' = disk /\ last'.saves = 0)

\* C26: a read-only query (get_rotation_status, is_rotation_complete,
\* get_worn_outfits, get_unworn_outfits, is_outfit_worn, get_all_worn_outfits,
\* get_categories) never saves the cache and leaves the cache file as it was,
\* in every state and for every input.
C26_QueriesNeverSave == [][C26_QueryStep]_vars

\* a listing was answered for a category that has files and no cache entry
C26_Witness ==
  /\ last.op = "get_unworn_outfits"
  /\ last.outcome = "Ok"
  /\ last.value.outfits # <<>>
  /\ ~HasEntry(Persisted, last.category)
  /\ \E c \in Categories : WornOf(Persisted, c) # {}

C27_ZeroFiles == last.category \in Categories /\ ~HasOutfitFiles(last.category)

\* C27: for a category with no matching file, get_rotation_status answers
\* (0, 0), is_rotation_complete false, the worn and unworn listings are empty,
\* is_outfit_worn is false and random selection returns no selection, none of
\* them an error, whatever the cache holds for the category's path.
C27_EmptyCategoryAnswers ==
  C27_ZeroFiles =>
    /\ (last.op = "get_rotation_status") =>
          (last.outcome = "Ok" /\ last.value.worn = 0 /\ last.value.total = 0)
    /\ (last.op = "is_rotation_complete") => (last.outcome = "Ok" /\ ~last.value.flag)
    /\ (last.op \in {"get_worn_outfits", "get_unworn_outfits"}) =>
          (last.outcome = "Ok" /\ last.value.outfits = <<>>)
    /\ (last.op = "is_outfit_worn" /\ ~IsBlank(last.file)) =>
          (last.outcome = "Ok" /\ ~last.value.flag)
    /\ (last.op = "select_random_outfit") => (last.outcome = "None" /\ last.file = "")

\* the completion query was asked of an emptied category whose entry still
\* holds worn names up to its recorded total
C27_Witness ==
  /\ C27_ZeroFiles
  /\ last.op = "is_rotation_complete"
  /\ HasEntry(Persisted, last.category)
  /\ WornOf(Persisted, last.category) # {}
  /\ is_rotation_complete(EntryOf(Persisted, last.category))

\* C28: for a category with at least one file, the is_rotation_complete query
\* answers true exactly when the worn-count of the category's cache entry has
\* reached the total recorded in that entry, also after the number of files
\* in the category has changed.
C28_QueryMatchesRecordedTotal ==
  (/\ last.op = "is_rotation_complete"
   /\ last.outcome = "Ok"
   /\ HasOutfitFiles(last.category))
  => (last.value.flag <=>
        (/\ HasEntry(Persisted, last.category)
         /\ Cardinality(WornOf(Persisted, last.category))
              >= EntryOf(Persisted, last.category).total_outfits))

C29_TakesFile == {"select_outfit_manually", "wear_outfit", "is_outfit_worn"}

C29_TakesCategory ==
  C29_TakesFile \cup
  {"select_random_outfit", "reset_category", "get_rotation_status",
   "is_rotation_complete", "get_worn_outfits", "get_unworn_outfits"}

\* C29: every operation that takes a category name or a file name from the
\* caller answers InvalidInput, with nothing saved, when a name it was given
\* is empty or only whitespace.
C29_BlankNamesAreInvalidInput ==
  (/\ last.op \in C29_TakesCategory
   /\ \/ IsBlank(last.category)
      \/ (last.op \in C29_TakesFile /\ IsBlank(last.file)))
  => (last.outcome = "InvalidInput" /\ last.saves = 0)

\* C30: in every cache entry reachable through selections, wears and resets,
\* with files coming and going, the worn-count does not exceed the recorded
\* total unless that total is 0, so that rotation_progress lies in [0.0, 1.0].
C30_WornWithinTotal ==
  \A k \in DOMAIN Persisted.categories :
     \/ Persisted.categories[k].total_outfits = 0
     \/ Cardinality(Persisted.categories[k].worn_outfits)
          <= Persisted.categories[k].total_outfits


\* the directories of the root whose sub-scan reads them and fails
C21_Failing ==
  {n \in DOMAIN fs : /\ is_dir(n) /\ ~starts_with_dot(n)
                      /\ n \in scanned.unreadable \ scanned.excluded}

\* C21: when the sub-scan of one category fails with an I/O error,
\* scan_categories returns an error and no category list, wherever the failing
\* sub-scan comes among those that succeeded.
C21_ScanIsAllOrNothing ==
  (scanned.op = "scan_categories" /\ C21_Failing # {})
  => (~scanned.ok /\ scanned.categories = <<>>)

\* the failing directory came last, after one whose sub-scan found outfits
C21_Witness ==
  /\ scanned.op = "scan_categories"
  /\ ~scanned.ok
  /\ Len(scanned.order) >= 2
  /\ scanned.order[Len(scanned.order)] \in C21_Failing
  /\ scanned.order[1] \in Categories \ (scanned.unreadable \cup scanned.excluded)
  /\ HasOutfitFiles(scanned.order[1])

\* C23: scan_categories reports exactly the entries of the root that are
\* directories and whose name does not start with a dot, each once; a regular
\* file or a dot-prefixed directory of the root gives neither an entry of the
\* result nor an error.
C23_ExactlyVisibleDirectories ==
  (scanned.op = "scan_categories") =>
    /\ scanned.ok =>
          /\ {scanned.categories[i].name : i \in DOMAIN scanned.categories}
               = {n \in DOMAIN fs : n \notin RootFileNames /\ n \notin HiddenDirectoryNames}
          /\ \A i, j \in DOMAIN scanned.categories :
                scanned.categories[i].name = scanned.categories[j].name => i = j
    /\ ~scanned.ok => C21_Failing # {}

\* the root held a regular file and an unreadable hidden directory, and the
\* scan returned the two categories
C23_Witness ==
  /\ scanned.op = "scan_categories"
  /\ scanned.ok
  /\ RootFileNames \cup HiddenDirectoryNames \subseteq DOMAIN fs
  /\ HiddenDirectoryNames \subseteq scanned.unreadable
  /\ Len(scanned.categories) = 2
  /\ scanned.order[1] \in HiddenDirectoryNames


\* C22: at every moment of a scan at most MAX_CONCURRENT_SCANS sub-scans are in
\* flight, however many directories were collected; no directory is scanned
\* twice, and when the scan has finished every directory has been scanned once.
C22_BoundedAndExactlyOnce ==
  /\ Cardinality(pool.in_flight) <= MAX_CONCURRENT_SCANS
  /\ \A d \in 1..pool.dir_entries : pool.scans[d] <= 1
  /\ (pool.next > pool.dir_entries /\ pool.in_flight = {})
       => \A d \in 1..pool.dir_entries : pool.scans[d] = 1

\* the bound is reached while a directory is still waiting
C22_Witness ==
  /\ Cardinality(pool.in_flight) = MAX_CONCURRENT_SCANS
  /\ pool.next <= pool.dir_entries
  /\ pool.dir_entries > MAX_CONCURRENT_SCANS


C38_PartitionOf(category_name) ==
  LET all == get_outfits(category_name).outfits
      worn == worn_outfits(category_name)
      unworn == unworn_outfits(category_name)
  IN  /\ worn.ok /\ unworn.ok
      /\ Range(worn.outfits) \cap Range(unworn.outfits) = {}
      /\ Range(worn.outfits) \cup Range(unworn.outfits) = Range(all)
      /\ Len(worn.outfits) + Len(unworn.outfits) = Len(all)
      /\ \A o \in Range(all) :
            (o \in Range(worn.outfits))
              <=> outfit_worn(category_name, o.file_name).flag

\* C38: in every state and for every category, get_worn_outfits and
\* get_unworn_outfits split the category's current file list in two: no file
\* in both, every file in one of them, and a file of the list is in the worn
\* result exactly when is_outfit_worn answers true for it.
C38_WornUnwornPartition == \A c \in Categories : C38_PartitionOf(c)

\* a category holds a worn file and an unworn file, and the other category's
\* entry holds the name of the unworn one
C38_Witness ==
  \E c \in Categories :
    /\ worn_outfits(c).outfits # <<>>
    /\ unworn_outfits(c).outfits # <<>>
    /\ \E o \in Categories \ {c} :
          unworn_outfits(c).outfits[1].file_name \in WornOf(Persisted, o)


\* C31: loading when there is no cache file gives a fresh empty cache (no
\* category, version 1) and no error; loading a file that can be read and whose
\* content does not parse gives the decode error, which is not the error of a
\* failed read, and never a cache.
C31_MissingIsFreshMalformedIsDecodeError ==
  LET loading == CacheManager_load_result(disk, io) IN
  /\ ~disk.exists =>
        /\ loading.outcome = "Ok"
        /\ DOMAIN loading.cache.categories = {}
        /\ loading.cache.version = 1
  /\ (disk.exists /\ ~disk.parses /\ "read" \notin io) =>
        loading.outcome = "DecodingFailed"
  /\ (disk.exists /\ "read" \in io) => loading.outcome = "OperationFailed"

\* a reset of all categories met a file that does not parse
C31_Witness ==
  /\ disk.exists /\ ~disk.parses /\ "read" \notin io
  /\ last.op = "reset_all_categories"
  /\ last.outcome = "DecodingFailed"

C32_Loading ==
  {"select_random_outfit", "select_outfit_manually", "wear_outfit", "reset_category",
   "reset_all_categories", "get_rotation_status", "is_rotation_complete",
   "get_worn_outfits", "get_unworn_outfits", "is_outfit_worn", "get_all_worn_outfits"}

\* the call r went as far as loading the cache
C32_ReachesLoad(r) ==
  \/ r.op \in {"reset_all_categories", "get_all_worn_outfits"}
  \/ /\ "scan" \notin io
     /\ r.category \in Categories
     /\ HasOutfitFiles(r.category)
     /\ r.op \in {"select_outfit_manually", "wear_outfit"} => r.file \in fs[r.category]

C32_ListingStep(r) ==
  (r.op = "get_categories" /\ "scan" \notin io) =>
     /\ r.outcome = "Ok"
     /\ {r.value.categories[i].name : i \in DOMAIN r.value.categories} = Categories
     /\ load_outcome # "Ok" =>
           \A i \in DOMAIN r.value.categories : r.value.categories[i].worn_count = 0

C32_OtherStep(r) ==
  (r.op \in C32_Loading /\ C32_ReachesLoad(r) /\ load_outcome # "Ok") =>
     r.outcome = load_outcome

\* C32: get_categories succeeds whenever the scan succeeds, with every
\* worn_count 0 when the cache load fails; every other operation that loads the
\* cache returns the error of the load.
C32_ListingSurvivesLoadFailure ==
  [][C32_ListingStep(last') /\ C32_OtherStep(last')]_vars

\* the listing was returned while the cache file, which holds a worn name,
\* could not be read
C32_Witness ==
  /\ last.op = "get_categories"
  /\ last.outcome = "Ok"
  /\ "read" \in io /\ disk.exists /\ disk.parses
  /\ \E c \in Categories : WornOf(Persisted, c) # {}
  /\ \E i \in DOMAIN last.value.categories :
        last.value.categories[i].state = "HasOutfits"

C37_Mutating ==
  {"select_random_outfit", "select_outfit_manually", "wear_outfit", "reset_category",
   "reset_all_categories"}

C37_ErrorStep ==
  (last'.op \in C37_Mutating /\ last'.outcome \notin {"Ok", "Some", "None"})
    => disk' = disk

\* C37: a random selection, manual selection, wear or reset that returns an
\* error (invalid input, category or file not found, scan failure, cache load
\* failure, cache save failure) leaves the cache file as it was before the call.
C37_ErrorLeavesCacheAsItWas == [][C37_ErrorStep]_vars


\* the skipped set of a category, empty when the session has none for it
C36_SkippedOf(session, category) ==
  IF category \in DOMAIN session.category_skipped
  THEN session.category_skipped[category]
  ELSE {}

C36_ResetStep(s, t, e) ==
  /\ (e.key = "reset_category") =>
        /\ C36_SkippedOf(t, e.category) = {}
        /\ \A c \in Categories \ {e.category} :
              /\ C36_SkippedOf(t, c) = C36_SkippedOf(s, c)
              /\ (c \in DOMAIN t.category_skipped) <=> (c \in DOMAIN s.category_skipped)
        /\ t.global_skipped = s.global_skipped
  /\ (e.key = "reset_global") =>
        /\ t.global_skipped = {}
        /\ t.category_skipped = s.category_skipped

\* C36: resetting the session skips of one category removes that category's
\* skipped set only, every other category's set and the global set staying as
\* they were; resetting the global set leaves every per-category set as it was.
C36_SessionResetsAreLocal ==
  [][C36_ResetStep(app.session, app'.session, app'.event)]_vars

\* one category was reset while another category and the global set held
\* skipped outfits
C36_Witness ==
  /\ app.event.key = "reset_category"
  /\ \E c \in Categories \ {app.event.category} :
        C36_SkippedOf(app.session, c) # {}
  /\ app.session.global_skipped # {}


\* C35: the list GetCategoriesUseCase::execute returns carries, for every
\* scanned category, the size of the worn set the cache stores under the
\* category's path: the list OutfitPickerService::get_categories gives for the
\* same scan and the same cache.
C35_UseCaseMatchesService ==
  (last.op = "GetCategoriesUseCase::execute" /\ last.outcome = "Ok")
    => last.value.categories = get_categories


C39_ConfigCalls == {"update_config", "change_language", "exclude_category", "include_category"}

\* C39: when update_config, change_language, exclude_category or
\* include_category returns the error of a configuration that could not be
\* saved, the configuration the service holds (language and excluded
\* categories) is the one it held before the call.
C39_FailedSaveKeepsConfig ==
  [][(last'.op \in C39_ConfigCalls /\ last'.outcome = "OperationFailed")
       => (language' = language /\ excluded' = excluded)]_vars


\* C40: whenever Enter is handled on the CategoryDetail screen with a
\* category and an outfit selected, selected_category_index is an index into
\* categories and the selected outfit index is an index into
\* current_category_outfits, whatever keys came before and whatever the scans
\* found.
C40_IndicesValidAtEnter ==
  (Running /\ app.screen = "CategoryDetail"
     /\ app.selected_category_index # None /\ app.outfit_list_state # None)
    => /\ app.selected_category_index < Len(app.categories)
       /\ app.outfit_list_state < Len(app.current_category_outfits)


\* C33: a random pick made for a category from the interface does not return
\* an outfit that the session holds as skipped in that category.
C33_PickAvoidsSkipped ==
  [][(last'.op = "select_random_outfit" /\ last'.outcome = "Some")
       => ~is_skipped_in_category(app.session, last'.category, last'.file)]_vars

\* the category that was browsed before the step, when there was one
C34_Browsed(a) ==
  IF a.selected_category_index # None /\ a.selected_category_index < Len(a.categories)
  THEN {a.categories[a.selected_category_index + 1].name}
  ELSE {}

C34_SelectsAnother ==
  /\ app.screen = "CategoryList"
  /\ app'.screen = "CategoryDetail"
  /\ app'.selected_category_index # app.selected_category_index

C34_Wears == last'.op = "wear_outfit" /\ last'.outcome = "Ok"

\* C34: when the user opens a category other than the one browsed before, and
\* when the user wears an outfit, the session afterwards holds no skipped
\* outfit for the category browsed before.
C34_SkipsResetOnSelectAndWear ==
  [][(C34_SelectsAnother \/ C34_Wears)
       => \A c \in C34_Browsed(app) : skipped_count_in_category(app'.session, c) = 0]_vars

====
